---- MODULE Spec2Model ----
(***************************************************************************)
(* Model of the protoc validation plugin (protoc-gen-template-validate):   *)
(* descriptor extraction, check building, template rendering, emission,    *)
(* and the behaviour of the Validate() methods it generates.               *)
(*                                                                         *)
(* Go strings are sequences of one-byte strings, so len() is Len().        *)
(* A nil pointer is the empty sequence and a set pointer is <<v>>.         *)
(***************************************************************************)
EXTENDS Integers, Sequences, FiniteSets, TLC

VARIABLES
    request,      \* gen.Files: the file descriptors handed to the plugin
    faults,       \* the templates whose Execute returns an error in this run
    formatFault,  \* TRUE when format.Source rejects the rendered text
    fileIdx,      \* position of main's loop over gen.Files
    genFiles,     \* the files registered by gen.NewGeneratedFile, in order
    pluginErr,    \* what the callback of protogen.Options.Run returned
    stderr,       \* number of lines executeTemplate wrote to os.Stderr
    call,         \* the last call of a generated Validate(): input and result
    fv,           \* check-builder harness: the FieldValidation under test
    built,        \* check-builder harness: what buildValidationChecks returned
    run,          \* 1 in the first run of the plugin on request, 2 in the second
    firstFiles,   \* the files the first run of the plugin produced
    notes,        \* repo.notes: the stored notes by ID
    now,          \* the clock read by time.Now()
    ret,          \* the last call of the note service and what it returned
    repoLog,      \* the repository methods the last service call invoked
    uuids,        \* the IDs uuid.New() has handed out
    typeName,     \* receiver harness: the Go type name under test
    receivers,    \* receiver harness: what the calls of getReceiverName returned
    reply,        \* the last call of the gRPC handler and what it returned
    rpc,          \* the last RPC the gRPC server took and how it answered
    subscribers,  \* EventService.subscribers: the registered channels
    chans,        \* the channels Subscribe has made: buffer, closed or not
    published,    \* the number of calls of Publish so far
    pubs,         \* per publishing goroutine: its note and channels to go
    panics,       \* the run-time panics raised so far
    evOp,         \* the last step of the event service
    hasEvents,    \* whether the injected service offers an event service
    stream,       \* the SubscribeToEvents call: position, channel, sent
    calls,        \* per concurrent caller of the note service: call and position
    chat,         \* the Chat call: its goroutines, messages and result
    srv           \* the server's life cycle: contexts, gRPC server, gateway

\* the state of the event service
eventVars == <<subscribers, chans, published, pubs, panics, evOp>>

\* the state of a SubscribeToEvents call
streamVars == <<hasEvents, stream>>

\* concurrent service calls, the Chat call and the server's life cycle
lifeVars == <<calls, chat, srv>>

\* the state of the gRPC server
serverVars == <<reply, rpc, eventVars, streamVars, lifeVars>>

vars == <<request, faults, formatFault, fileIdx, genFiles, pluginErr, stderr,
          call, fv, built, run, firstFiles, notes, now, ret, repoLog, uuids,
          typeName, receivers, serverVars>>

\* the state of the note service and of its repository
notesVars == <<notes, now, ret, repoLog, uuids>>

\* the state of the code generator and of its harnesses
pluginVars ==
    <<request, faults, formatFault, fileIdx, genFiles, pluginErr, stderr,
      call, fv, built, run, firstFiles, typeName, receivers>>

-----------------------------------------------------------------------------
(* Bounds of the model *)

\* constraint values range over 0..MaxN
MaxN == 2
\* at most MaxFiles files in a request
MaxFiles == 2
\* at most MaxMsgs top-level messages in a request
MaxMsgs == 2
\* patterns of the check builder's inputs have at most MaxPat bytes
MaxPat == 2

\* time.Now() returns 1..MaxClock
MaxClock == 2

\* the calls of Publish in a run of interleaved calls
MaxRace == 3

\* the messages sent on one stream
MaxSent == 3

\* the messages a client sends on one Chat stream
MaxChat == 2

\* the notifications the ticker of one Chat call brings about
MaxNotif == 2

\* GracefulShutdownTimeout is 1..MaxTimeout seconds
MaxTimeout == 2

\* the RPCs under way at one time
MaxActive == 2

\* the HTTP requests the gateway is sent
MaxHttp == 2

\* Go type names have at most MaxName bytes, the tested names apart
MaxName == 2

-----------------------------------------------------------------------------
(* Pointers, strings and characters *)

Nil == <<>>
Some(x) == <<x>>

UpperSeq == <<"A","B","C","D","E","F","G","H","I","J","K","L","M",
              "N","O","P","Q","R","S","T","U","V","W","X","Y","Z">>
LowerSeq == <<"a","b","c","d","e","f","g","h","i","j","k","l","m",
              "n","o","p","q","r","s","t","u","v","w","x","y","z">>
Upper == {UpperSeq[i] : i \in 1..26}
Lower == {LowerSeq[i] : i \in 1..26}
Digit == {"0","1","2","3","4","5","6","7","8","9"}

\* strings.ToLower on a one-byte string
ToLower(c) ==
    IF c \in Upper
    THEN LowerSeq[CHOOSE i \in 1..26 : UpperSeq[i] = c]
    ELSE c

\* n copies of the byte c
Rep(c, n) == [i \in 1..n |-> c]

RECURSIVE Flatten(_)
Flatten(ss) == IF ss = <<>> THEN <<>> ELSE Head(ss) \o Flatten(Tail(ss))

Range(s) == {s[i] : i \in 1..Len(s)}

RECURSIVE SumSeq(_)
SumSeq(ns) == IF ns = <<>> THEN 0 ELSE Head(ns) + SumSeq(Tail(ns))

\* all sequences over S of length lo..hi
SeqsOf(S, lo, hi) == UNION {[1..n -> S] : n \in lo..hi}

-----------------------------------------------------------------------------
(* Descriptors: the input of the plugin *)

\* the pattern of the check builder's test: a value starts with a capital
PUpper == <<"^", "[", "A", "-", "Z", "]">>

\* an optional uint64 of a rule message: nil or a pointer to 0..MaxN
OptNum == {Nil} \cup {Some(n) : n \in 0..MaxN}

\* validate.StringRules, the four members the plugin reads
StringRulesSet ==
    [MinLen : OptNum, MaxLen : OptNum,
     Pattern : {Nil, Some(<<>>), Some(PUpper)}, Email : BOOLEAN]

\* validate.RepeatedRules, the two members the plugin reads
RepeatedRulesSet == [MinItems : OptNum, MaxItems : OptNum]

\* validate.FieldRules: its type is a oneof, so at most one group is set;
\* Other stands for any group the plugin does not read (int32, ...)
FieldRulesSet ==
    {[String_ |-> Some(s), Repeated |-> Nil, Other |-> FALSE] : s \in StringRulesSet}
    \cup {[String_ |-> Nil, Repeated |-> Some(r), Other |-> FALSE] : r \in RepeatedRulesSet}
    \cup {[String_ |-> Nil, Repeated |-> Nil, Other |-> o] : o \in BOOLEAN}

\* protogen.Field: Rules is nil when the field carries no validate.rules
Field(name, kind, isList, rules) ==
    [GoName |-> name, Kind |-> kind, IsList |-> isList, Optional |-> FALSE,
     Rules |-> rules]

\* protogen.Message; Messages are the messages declared inside it
Message(name, mapEntry, fields, nested) ==
    [GoName |-> name, IsMapEntry |-> mapEntry, Fields |-> fields,
     Messages |-> nested]

\* protogen.File
File(stem, generate, messages) ==
    [GeneratedFilenamePrefix |-> stem, Path |-> stem \o ".proto",
     GoPackageName |-> "testv1", Generate |-> generate, Messages |-> messages]

-----------------------------------------------------------------------------
(* Data structures of the generator (types.go) *)

FieldValidation(name, kind, isList, optional) ==
    [FieldName |-> name, FieldType |-> kind, IsRepeated |-> isList,
     IsOptional |-> optional,
     MinLen |-> Nil, MaxLen |-> Nil, Pattern |-> <<>>, Email |-> FALSE,
     MinItems |-> Nil, MaxItems |-> Nil]

\* the empty string that executeTemplate returns on failure
EmptyCode == [stmt |-> ""]

-----------------------------------------------------------------------------
(* Descriptor extractor *)

ToLowerFirst(goTypeName) == ToLower(goTypeName[1])

\* mutant: a name starting with "p" keeps its own letter
getReceiverName_FirstLetter(goTypeName) ==
    IF goTypeName = <<>> THEN "m" ELSE ToLowerFirst(goTypeName)

getReceiverName(goTypeName) ==
    IF goTypeName = <<>> THEN "m"
    ELSE IF ToLowerFirst(goTypeName) = "p" THEN "m"
    ELSE ToLowerFirst(goTypeName)

\* mutant: a length of 0 is taken for an absent one
WithStringRules_ZeroAsAbsent(v, s) ==
    [v EXCEPT !.MinLen  = IF s.MinLen # Nil /\ s.MinLen # Some(0)
                          THEN s.MinLen ELSE @,
              !.MaxLen  = IF s.MaxLen # Nil /\ s.MaxLen # Some(0)
                          THEN s.MaxLen ELSE @,
              !.Pattern = IF s.Pattern # Nil THEN s.Pattern[1] ELSE @,
              !.Email   = IF s.Email THEN TRUE ELSE @]

\* the string rules copied into a FieldValidation
WithStringRules(v, s) ==
    [v EXCEPT !.MinLen  = IF s.MinLen # Nil THEN s.MinLen ELSE @,
              !.MaxLen  = IF s.MaxLen # Nil THEN s.MaxLen ELSE @,
              !.Pattern = IF s.Pattern # Nil THEN s.Pattern[1] ELSE @,
              !.Email   = IF s.Email THEN TRUE ELSE @]

\* the repeated rules copied into a FieldValidation
WithRepeatedRules(v, r) ==
    [v EXCEPT !.MinItems = IF r.MinItems # Nil THEN r.MinItems ELSE @,
              !.MaxItems = IF r.MaxItems # Nil THEN r.MaxItems ELSE @]

\* nil, or a pointer to the FieldValidation of the field
extractFieldValidation(field) ==
    IF field.Rules = Nil THEN Nil
    ELSE LET rules == field.Rules[1]
             v0 == FieldValidation(field.GoName, field.Kind, field.IsList,
                                   field.Optional)
             v1 == IF rules.String_ # Nil
                   THEN WithStringRules(v0, rules.String_[1]) ELSE v0
             v2 == IF rules.Repeated # Nil
                   THEN WithRepeatedRules(v1, rules.Repeated[1]) ELSE v1
         IN  Some(v2)

extractMessageInfo(msg) ==
    [GoName |-> msg.GoName,
     GoPackage |-> "notes-service/pkg/proto/test/v1",
     Fields |-> Flatten([i \in 1..Len(msg.Fields) |->
                            extractFieldValidation(msg.Fields[i])]),
     ReceiverName |-> getReceiverName(msg.GoName)]

\* mutant: any declared message counts, a map entry too
hasMessages_AnyMessage(f) == Len(f.Messages) > 0

hasMessages(f) == \E i \in 1..Len(f.Messages) : ~f.Messages[i].IsMapEntry

NotMapEntry(msg) == ~msg.IsMapEntry

HasEmail(msgInfo) == \E i \in 1..Len(msgInfo.Fields) : msgInfo.Fields[i].Email

\* mutant: the header names the run that wrote the file
extractFileInfo_Stamped(f, fmtErrorf, regexpMustCompile) ==
    LET kept == SelectSeq(f.Messages, NotMapEntry)
        messages == [i \in 1..Len(kept) |-> extractMessageInfo(kept[i])]
    IN  [PackageName |-> f.GoPackageName,
         SourcePath |-> f.Path \o ToString(run),
         Messages |-> messages,
         NeedsEmail |-> \E i \in 1..Len(messages) : HasEmail(messages[i]),
         FmtErrorf |-> fmtErrorf,
         RegexpMustCompile |-> regexpMustCompile]

extractFileInfo(f, fmtErrorf, regexpMustCompile) ==
    LET kept == SelectSeq(f.Messages, NotMapEntry)
        messages == [i \in 1..Len(kept) |-> extractMessageInfo(kept[i])]
    IN  [PackageName |-> f.GoPackageName,
         SourcePath |-> f.Path,
         Messages |-> messages,
         NeedsEmail |-> \E i \in 1..Len(messages) : HasEmail(messages[i]),
         FmtErrorf |-> fmtErrorf,
         RegexpMustCompile |-> regexpMustCompile]

-----------------------------------------------------------------------------
(* Templates (templates.go) and their execution *)

minLenCheckTemplate == "minLenCheck"
maxLenCheckTemplate == "maxLenCheck"
patternCheckTemplate == "patternCheck"
emailCheckTemplate == "emailCheck"
minItemsCheckTemplate == "minItemsCheck"
maxItemsCheckTemplate == "maxItemsCheck"
fileHeaderTmpl == "fileHeader"
validateMethodTmpl == "validateMethod"
isValidEmailTmpl == "isValidEmail"

CheckTemplates ==
    {minLenCheckTemplate, maxLenCheckTemplate, patternCheckTemplate,
     emailCheckTemplate, minItemsCheckTemplate, maxItemsCheckTemplate}
FileTemplates == {fileHeaderTmpl, validateMethodTmpl, isValidEmailTmpl}

\* one rendered check: "if <cond> { return <Errorf>(<Msg>) }"
Snippet(stmt, data, value, pattern, compile, msg) ==
    [stmt |-> stmt, Receiver |-> data.Receiver, FieldName |-> data.FieldName,
     Value |-> value, Pattern |-> pattern, Compile |-> compile,
     Errorf |-> data.FmtErrorf, Msg |-> msg]

\* the text a check template renders for its data
Render(tmplStr, data) ==
    CASE tmplStr = minLenCheckTemplate ->
           Snippet("if len <", data, data.Value, <<>>, "",
                   "field " \o data.FieldName \o " must be at least "
                       \o ToString(data.Value) \o " characters")
      [] tmplStr = maxLenCheckTemplate ->
           Snippet("if len >", data, data.Value, <<>>, "",
                   "field " \o data.FieldName \o " must be at most "
                       \o ToString(data.Value) \o " characters")
      [] tmplStr = patternCheckTemplate ->
           Snippet("if !MatchString", data, 0, data.Pattern,
                   data.RegexpMustCompile,
                   "field " \o data.FieldName
                       \o " does not match required pattern")
      [] tmplStr = emailCheckTemplate ->
           Snippet("if !isValidEmail", data, 0, <<>>, "",
                   "field " \o data.FieldName
                       \o " must be a valid email address")
      [] tmplStr = minItemsCheckTemplate ->
           Snippet("if len <", data, data.Value, <<>>, "",
                   "field " \o data.FieldName \o " must have at least "
                       \o ToString(data.Value) \o " items")
      [] tmplStr = maxItemsCheckTemplate ->
           Snippet("if len >", data, data.Value, <<>>, "",
                   "field " \o data.FieldName \o " must have at most "
                       \o ToString(data.Value) \o " items")

\* the rendered text, or the empty string when Execute returns an error
executeTemplate(tmplStr, data) ==
    IF tmplStr \in faults THEN EmptyCode ELSE Render(tmplStr, data)

-----------------------------------------------------------------------------
(* Check builder *)

\* the two bytes of the UTF-8 encoding of a printable non-ASCII rune;
\* each alone is a byte that is not valid UTF-8
Lead == "xC3"
Cont == "xA9"
HexOf(b) == IF b = Lead THEN <<"c", "3">> ELSE <<"a", "9">>

\* strconv.Quote of one ASCII byte: the quote, the backslash and the
\* newline are escaped, a printable byte stands for itself
QuoteByte(c) ==
    IF c = "\"" THEN <<"\\", "\"">>
    ELSE IF c = "\\" THEN <<"\\", "\\">>
    ELSE IF c = "\n" THEN <<"\\", "n">>
    ELSE <<c>>

\* strconv.Quote rune by rune: a printable rune is copied, a byte that
\* is not valid UTF-8 becomes a \x escape
RECURSIVE QuoteBody(_)
QuoteBody(s) ==
    IF s = <<>> THEN <<>>
    ELSE IF Len(s) >= 2 /\ s[1] = Lead /\ s[2] = Cont
    THEN <<Lead, Cont>> \o QuoteBody(SubSeq(s, 3, Len(s)))
    ELSE IF s[1] \in {Lead, Cont}
    THEN <<"\\", "x">> \o HexOf(s[1]) \o QuoteBody(Tail(s))
    ELSE QuoteByte(s[1]) \o QuoteBody(Tail(s))

\* mutant: the pattern put between quotes as it is
Quote_NoEscape(s) == <<"\"">> \o s \o <<"\"">>

\* fmt.Sprintf("%q", s)
Quote(s) == <<"\"">> \o QuoteBody(s) \o <<"\"">>

Sprintf_field_must(fieldName, what, n, unit) ==
    "field " \o fieldName \o what \o ToString(n) \o unit

addValidationCheck(checks, checkType, fieldName, receiver, code, fmtErrorf, errorMsg, value, regexpMustCompile, pattern) ==
    IF code.stmt = "" THEN checks
    ELSE Append(checks,
                [Type |-> checkType, Value |-> value, FieldName |-> fieldName,
                 Receiver |-> receiver, ErrorMsg |-> errorMsg, Code |-> code,
                 FmtErrorf |-> fmtErrorf,
                 RegexpMustCompile |-> regexpMustCompile,
                 Pattern |-> pattern])

\* the data of a length or item-count template
\* mutant: the rendered comparison is against the bound plus one
NumData_ValuePlusOne(field, receiver, value, fmtErrorf) ==
    [Receiver |-> receiver, FieldName |-> field.FieldName,
     Value |-> value + 1, FmtErrorf |-> fmtErrorf]

NumData(field, receiver, value, fmtErrorf) ==
    [Receiver |-> receiver, FieldName |-> field.FieldName, Value |-> value,
     FmtErrorf |-> fmtErrorf]

\* each block of buildValidationChecks: the check of one constraint, or
\* nothing when the constraint is not populated
\* mutant: the rendered comparison is against MinLen + 1
MinLenCheck_OffByOne(field, receiver, fmtErrorf) ==
    IF field.MinLen # Nil
    THEN addValidationCheck(<<>>, "minLen", field.FieldName, receiver,
           executeTemplate(minLenCheckTemplate,
               [NumData(field, receiver, field.MinLen[1], fmtErrorf)
                   EXCEPT !.Value = @ + 1]),
           fmtErrorf,
           Sprintf_field_must(field.FieldName, " must be at least ",
                              field.MinLen[1], " characters"),
           field.MinLen, "", <<>>)
    ELSE <<>>

MinLenCheck(field, receiver, fmtErrorf) ==
    IF field.MinLen # Nil
    THEN addValidationCheck(<<>>, "minLen", field.FieldName, receiver,
           executeTemplate(minLenCheckTemplate,
               NumData(field, receiver, field.MinLen[1], fmtErrorf)),
           fmtErrorf,
           Sprintf_field_must(field.FieldName, " must be at least ",
                              field.MinLen[1], " characters"),
           field.MinLen, "", <<>>)
    ELSE <<>>

MaxLenCheck(field, receiver, fmtErrorf) ==
    IF field.MaxLen # Nil
    THEN addValidationCheck(<<>>, "maxLen", field.FieldName, receiver,
           executeTemplate(maxLenCheckTemplate,
               NumData(field, receiver, field.MaxLen[1], fmtErrorf)),
           fmtErrorf,
           Sprintf_field_must(field.FieldName, " must be at most ",
                              field.MaxLen[1], " characters"),
           field.MaxLen, "", <<>>)
    ELSE <<>>

PatternCheck(field, receiver, fmtErrorf, regexpMustCompile) ==
    IF field.Pattern # <<>>
    THEN LET patternEscaped == Quote(field.Pattern)
         IN  addValidationCheck(<<>>, "pattern", field.FieldName, receiver,
               executeTemplate(patternCheckTemplate,
                   [Receiver |-> receiver,
                    FieldName |-> field.FieldName,
                    Pattern |-> patternEscaped,
                    FmtErrorf |-> fmtErrorf,
                    RegexpMustCompile |-> regexpMustCompile]),
               fmtErrorf,
               "field " \o field.FieldName
                   \o " does not match required pattern",
               Some(field.Pattern), regexpMustCompile, patternEscaped)
    ELSE <<>>

EmailCheck(field, receiver, fmtErrorf) ==
    IF field.Email
    THEN addValidationCheck(<<>>, "email", field.FieldName, receiver,
           executeTemplate(emailCheckTemplate,
               [Receiver |-> receiver,
                FieldName |-> field.FieldName,
                FmtErrorf |-> fmtErrorf]),
           fmtErrorf,
           "field " \o field.FieldName \o " must be a valid email address",
           Nil, "", <<>>)
    ELSE <<>>

MinItemsCheck(field, receiver, fmtErrorf) ==
    IF field.MinItems # Nil
    THEN addValidationCheck(<<>>, "minItems", field.FieldName, receiver,
           executeTemplate(minItemsCheckTemplate,
               NumData(field, receiver, field.MinItems[1], fmtErrorf)),
           fmtErrorf,
           Sprintf_field_must(field.FieldName, " must have at least ",
                              field.MinItems[1], " items"),
           field.MinItems, "", <<>>)
    ELSE <<>>

\* mutant: the max_items block renders the min_items template
MaxItemsCheck_MinTemplate(field, receiver, fmtErrorf) ==
    IF field.MaxItems # Nil
    THEN addValidationCheck(<<>>, "maxItems", field.FieldName, receiver,
           executeTemplate(minItemsCheckTemplate,
               NumData(field, receiver, field.MaxItems[1], fmtErrorf)),
           fmtErrorf,
           Sprintf_field_must(field.FieldName, " must have at most ",
                              field.MaxItems[1], " items"),
           field.MaxItems, "", <<>>)
    ELSE <<>>

MaxItemsCheck(field, receiver, fmtErrorf) ==
    IF field.MaxItems # Nil
    THEN addValidationCheck(<<>>, "maxItems", field.FieldName, receiver,
           executeTemplate(maxItemsCheckTemplate,
               NumData(field, receiver, field.MaxItems[1], fmtErrorf)),
           fmtErrorf,
           Sprintf_field_must(field.FieldName, " must have at most ",
                              field.MaxItems[1], " items"),
           field.MaxItems, "", <<>>)
    ELSE <<>>

\* mutant: the email block placed before the pattern block
buildValidationChecks_EmailFirst(field, receiver, fmtErrorf, regexpMustCompile) ==
    MinLenCheck(field, receiver, fmtErrorf)
    \o MaxLenCheck(field, receiver, fmtErrorf)
    \o EmailCheck(field, receiver, fmtErrorf)
    \o PatternCheck(field, receiver, fmtErrorf, regexpMustCompile)
    \o MinItemsCheck(field, receiver, fmtErrorf)
    \o MaxItemsCheck(field, receiver, fmtErrorf)

\* the checks are appended block after block
buildValidationChecks(field, receiver, fmtErrorf, regexpMustCompile) ==
    MinLenCheck(field, receiver, fmtErrorf)
    \o MaxLenCheck(field, receiver, fmtErrorf)
    \o PatternCheck(field, receiver, fmtErrorf, regexpMustCompile)
    \o EmailCheck(field, receiver, fmtErrorf)
    \o MinItemsCheck(field, receiver, fmtErrorf)
    \o MaxItemsCheck(field, receiver, fmtErrorf)

\* one FieldValidationData per field that has at least one check
FieldData(field, receiver, fmtErrorf, regexpMustCompile) ==
    LET checks == buildValidationChecks(field, receiver, fmtErrorf,
                                        regexpMustCompile)
    IN  IF Len(checks) > 0
        THEN <<[FieldName |-> field.FieldName, Validations |-> checks]>>
        ELSE <<>>

\* mutant: the fields taken last to first
buildFieldValidations_Reversed(msgInfo, fmtErrorf, regexpMustCompile) ==
    Flatten([i \in 1..Len(msgInfo.Fields) |->
                FieldData(msgInfo.Fields[Len(msgInfo.Fields) + 1 - i],
                          msgInfo.ReceiverName, fmtErrorf, regexpMustCompile)])

buildFieldValidations(msgInfo, fmtErrorf, regexpMustCompile) ==
    Flatten([i \in 1..Len(msgInfo.Fields) |->
                FieldData(msgInfo.Fields[i], msgInfo.ReceiverName, fmtErrorf,
                          regexpMustCompile)])

-----------------------------------------------------------------------------
(* Template renderer and emitter *)

\* the snippets of a method, field after field, check after check
MethodBody(fields) ==
    Flatten([i \in 1..Len(fields) |->
                [j \in 1..Len(fields[i].Validations) |->
                    fields[i].Validations[j].Code]])

\* what one message adds to the buffer; partial: an Execute that fails
\* has already written the beginning of its text
MethodChunk(msgInfo, fileInfo, partial) ==
    LET fieldValidations ==
            buildFieldValidations(msgInfo, fileInfo.FmtErrorf,
                                  fileInfo.RegexpMustCompile)
        methodData ==
            [MessageName |-> msgInfo.GoName,
             ReceiverName |-> msgInfo.ReceiverName,
             Fields |-> fieldValidations,
             FmtErrorf |-> fileInfo.FmtErrorf,
             RegexpMustCompile |-> fileInfo.RegexpMustCompile]
    IN  IF validateMethodTmpl \in faults
        THEN (IF partial THEN <<[kind |-> "truncated"]>> ELSE <<>>)
        ELSE <<[kind |-> "method",
                MessageName |-> methodData.MessageName,
                ReceiverName |-> methodData.ReceiverName,
                Body |-> MethodBody(methodData.Fields)]>>

HelperChunk(fileInfo, partial) ==
    IF ~fileInfo.NeedsEmail THEN <<>>
    ELSE IF isValidEmailTmpl \in faults
    THEN (IF partial THEN <<[kind |-> "truncated"]>> ELSE <<>>)
    ELSE <<[kind |-> "isValidEmail",
            RegexpMustCompile |-> fileInfo.RegexpMustCompile]>>

\* the buffer before formatting
RenderedBuffer(fileInfo, partial) ==
    <<[kind |-> "header", PackageName |-> fileInfo.PackageName,
       SourcePath |-> fileInfo.SourcePath]>>
    \o Flatten([i \in 1..Len(fileInfo.Messages) |->
                   MethodChunk(fileInfo.Messages[i], fileInfo, partial)])
    \o HelperChunk(fileInfo, partial)

\* format.Source fails on text that is not a Go source file
FormatFails(buf) ==
    formatFault \/ \E i \in 1..Len(buf) : buf[i].kind = "truncated"

\* what g.Write received: nothing when the header template failed
generateCodeWithTemplates(fileInfo, partial) ==
    IF fileHeaderTmpl \in faults
    THEN [Written |-> FALSE, Formatted |-> FALSE, Content |-> <<>>]
    ELSE LET buf == RenderedBuffer(fileInfo, partial)
         IN  [Written |-> TRUE, Formatted |-> ~FormatFails(buf),
              Content |-> buf]

\* the check templates a FieldValidation makes executeTemplate run
TemplatesOf(field) ==
    (IF field.MinLen # Nil THEN {minLenCheckTemplate} ELSE {})
    \cup (IF field.MaxLen # Nil THEN {maxLenCheckTemplate} ELSE {})
    \cup (IF field.Pattern # <<>> THEN {patternCheckTemplate} ELSE {})
    \cup (IF field.Email THEN {emailCheckTemplate} ELSE {})
    \cup (IF field.MinItems # Nil THEN {minItemsCheckTemplate} ELSE {})
    \cup (IF field.MaxItems # Nil THEN {maxItemsCheckTemplate} ELSE {})

\* the lines executeTemplate logs while a file is generated
LoggedFailures(fileInfo) ==
    IF fileHeaderTmpl \in faults THEN 0
    ELSE SumSeq(Flatten(
            [i \in 1..Len(fileInfo.Messages) |->
                [j \in 1..Len(fileInfo.Messages[i].Fields) |->
                    Cardinality(TemplatesOf(fileInfo.Messages[i].Fields[j])
                                \cap faults)]]))

\* nothing for a file without messages, else its GeneratedFile
generateFileWithTemplate(f, partial) ==
    IF ~hasMessages(f) THEN <<>>
    ELSE LET filename == f.GeneratedFilenamePrefix \o ".pb.validate.go"
             fmtErrorf == "fmt.Errorf"
             regexpMustCompile == "regexp.MustCompile"
             fileInfo == extractFileInfo(f, fmtErrorf, regexpMustCompile)
             g == generateCodeWithTemplates(fileInfo, partial)
         IN  <<[Name |-> filename, Source |-> f.Path, Written |-> g.Written,
                Formatted |-> g.Formatted, Content |-> g.Content,
                Info |-> fileInfo, Logged |-> LoggedFailures(fileInfo)]>>

-----------------------------------------------------------------------------
(* The generated code at run time *)

\* the string a quoted Go literal denotes
RECURSIVE Unescape(_)
Unescape(s) ==
    IF s = <<>> THEN <<>>
    ELSE IF Head(s) = "\\" /\ Len(s) >= 4 /\ s[2] = "x"
    THEN <<IF SubSeq(s, 3, 4) = HexOf(Lead) THEN Lead ELSE Cont>>
         \o Unescape(SubSeq(s, 5, Len(s)))
    ELSE IF Head(s) = "\\" /\ Len(s) >= 2
    THEN <<IF s[2] = "n" THEN "\n" ELSE s[2]>> \o Unescape(Tail(Tail(s)))
    ELSE <<Head(s)>> \o Unescape(Tail(s))

Unquote(lit) == Unescape(SubSeq(lit, 2, Len(lit) - 1))

\* regexp.MustCompile(pattern).MatchString(s), for the patterns of the model
MatchString(pattern, s) ==
    CASE pattern = <<>> -> TRUE
      [] pattern = PUpper -> s # <<>> /\ s[1] \in Upper
      [] OTHER -> FALSE

LocalPart == Upper \cup Lower \cup Digit \cup {".", "_", "%", "+", "-"}
DomainPart == Upper \cup Lower \cup Digit \cup {".", "-"}
AllIn(s, lo, hi, S) == \A k \in lo..hi : s[k] \in S

\* ^[a-zA-Z0-9._%+\-]+@[a-zA-Z0-9.\-]+\.[a-zA-Z]{2,}$
isValidEmail(email) ==
    \E at \in 2..Len(email) :
        /\ email[at] = "@"
        /\ AllIn(email, 1, at - 1, LocalPart)
        /\ \E dot \in (at + 2)..(Len(email) - 2) :
              /\ email[dot] = "."
              /\ AllIn(email, at + 1, dot - 1, DomainPart)
              /\ AllIn(email, dot + 1, Len(email), Upper \cup Lower)

\* the value of field fieldName in a value of message msg
FieldIndex(msg, fieldName) ==
    CHOOSE i \in 1..Len(msg.Fields) : msg.Fields[i].GoName = fieldName

\* whether the condition of a snippet is true of the field's value x
CheckFails(code, x) ==
    CASE code.stmt = "if len <" -> Len(x) < code.Value
      [] code.stmt = "if len >" -> Len(x) > code.Value
      [] code.stmt = "if !MatchString" ->
             ~MatchString(Unquote(code.Pattern), x)
      [] code.stmt = "if !isValidEmail" -> ~isValidEmail(x)

\* the first snippet of body, from position i on, whose condition is true
RECURSIVE RunBody(_, _, _, _)
RunBody(body, i, msg, val) ==
    IF i > Len(body) THEN Nil
    ELSE IF CheckFails(body[i], val[FieldIndex(msg, body[i].FieldName)])
    THEN Some(body[i].Msg)
    ELSE RunBody(body, i + 1, msg, val)

\* a generated Validate(): nil, or the error of the first failing check
Validate(method, msg, val) == RunBody(method.Body, 1, msg, val)

\* whether the compiler accepts a snippet on a field of that kind
SnippetCompiles(code, field) ==
    IF code.stmt \in {"if len <", "if len >"}
    THEN field.Kind = "string" \/ field.IsList
    ELSE field.Kind = "string" /\ ~field.IsList

MethodCompiles(method, msg) ==
    \A i \in 1..Len(method.Body) :
        SnippetCompiles(method.Body[i],
                        msg.Fields[FieldIndex(msg, method.Body[i].FieldName)])

-----------------------------------------------------------------------------
(* The inputs of the model *)

MUser == <<"U", "s", "e", "r">>
CreateNoteRequestName ==
    <<"C","r","e","a","t","e","N","o","t","e","R","e","q","u","e","s","t">>
MessageName == <<"M","e","s","s","a","g","e">>
MProduct == <<"P", "r", "o", "d", "u", "c", "t">>
MCode == <<"C", "o", "d", "e">>
MInner == <<"I", "n", "n", "e", "r">>
MMeta == <<"M", "e", "t", "a">>
MTagsEntry == <<"T", "a", "g", "s", "E", "n", "t", "r", "y">>

Kinds ==
    {[Kind |-> "string", IsList |-> FALSE], [Kind |-> "string", IsList |-> TRUE],
     [Kind |-> "int32", IsList |-> FALSE]}

OptRules == {Nil} \cup {Some(r) : r \in FieldRulesSet}

\* every field the rule domain allows, of every kind
RichFields ==
    {Field("Title", k.Kind, k.IsList, r) : k \in Kinds, r \in OptRules}

StringRule(min, max, pattern, email) ==
    Some([String_ |-> Some([MinLen |-> min, MaxLen |-> max,
                            Pattern |-> pattern, Email |-> email]),
          Repeated |-> Nil, Other |-> FALSE])

RepeatedRule(min, max) ==
    Some([String_ |-> Nil,
          Repeated |-> Some([MinItems |-> min, MaxItems |-> max]),
          Other |-> FALSE])

\* fields for messages of two fields: several constraints on one field,
\* bounds that exclude each other, and fields without rules
CoreFields(name) ==
    {Field(name, "string", FALSE, Nil),
     Field(name, "string", FALSE,
           StringRule(Some(MaxN), Some(MaxN - 1), Some(PUpper), TRUE)),
     Field(name, "string", FALSE, StringRule(Some(1), Nil, Nil, FALSE)),
     Field(name, "string", FALSE, StringRule(Nil, Some(1), Nil, TRUE)),
     Field(name, "string", TRUE, RepeatedRule(Some(1), Some(MaxN))),
     Field(name, "string", TRUE, RepeatedRule(Some(MaxN), Some(1)))}

Stem(i) == "test/v1/file" \o ToString(i)

SingleRequests ==
    {<<File(Stem(1), TRUE, <<Message(MUser, FALSE, <<f>>, <<>>)>>)>> :
        f \in RichFields}

PairRequests ==
    {<<File(Stem(1), TRUE, <<Message(MCode, FALSE, <<f1, f2>>, <<>>)>>)>> :
        f1 \in CoreFields("Title"), f2 \in CoreFields("Tags")}

InnerMsg ==
    Message(MInner, FALSE,
            <<Field("Title", "string", FALSE,
                    StringRule(Some(1), Nil, Nil, TRUE))>>, <<>>)
MetaMsg ==
    Message(MMeta, FALSE, <<Field("Note", "string", FALSE, Nil)>>, <<>>)
TagsEntryMsg ==
    Message(MTagsEntry, TRUE,
            <<Field("Key", "string", FALSE, Nil),
              Field("Value", "string", FALSE, Nil)>>, <<>>)

\* the messages of the structural requests: one with an email field, one
\* without rules that declares two messages and a map entry inside it, and
\* one flagged as a map entry at the top level
CoreMessages ==
    {Message(MUser, FALSE,
             <<Field("Email", "string", FALSE,
                     StringRule(Nil, Nil, Nil, TRUE))>>, <<>>),
     Message(MProduct, FALSE, <<Field("Title", "string", FALSE, Nil)>>,
             <<InnerMsg, MetaMsg, TagsEntryMsg>>),
     Message(MTagsEntry, TRUE, TagsEntryMsg.Fields, <<>>)}

Injective(s) == \A i, j \in 1..Len(s) : s[i] = s[j] => i = j

MessageLists == {ms \in SeqsOf(CoreMessages, 0, MaxMsgs) : Injective(ms)}

\* the files that can stand at position i of a request
FilesAt(i) ==
    {File(Stem(i), TRUE, ms) : ms \in MessageLists}
    \cup {File(Stem(i), FALSE, <<InnerMsg>>)}

\* requests of up to MaxFiles files that declare up to MaxMsgs top-level
\* messages between them
RECURSIVE FileSeqs(_)
FileSeqs(n) ==
    IF n = 0 THEN {<<>>}
    ELSE UNION {{Append(r, f) :
                    f \in {g \in FilesAt(n) :
                             SumSeq([i \in 1..Len(r) |-> Len(r[i].Messages)])
                                 + Len(g.Messages) <= MaxMsgs}} :
                r \in FileSeqs(n - 1)}

StructRequests == UNION {FileSeqs(n) : n \in 1..MaxFiles}

\* message CreateNoteRequest of the README's notes.proto
CreateNoteRequestMsg ==
    Message(CreateNoteRequestName, FALSE,
            <<Field("Title", "string", FALSE,
                    StringRule(Some(5), Some(255), Nil, FALSE)),
              Field("Content", "string", FALSE,
                    StringRule(Some(10), Nil, Nil, FALSE)),
              Field("Email", "string", FALSE,
                    StringRule(Nil, Nil, Nil, TRUE)),
              Field("Tags", "string", TRUE,
                    RepeatedRule(Some(1), Some(10)))>>, <<>>)

\* proto/notes/v1/notes.proto of the README, given to the plugin
ReadmeRequest == <<File("notes/v1/notes", TRUE, <<CreateNoteRequestMsg>>)>>

Requests ==
    SingleRequests \cup PairRequests \cup StructRequests \cup {ReadmeRequest}

StringVals ==
    {Rep("A", n) : n \in 0..(MaxN + 1)} \cup {Rep("a", n) : n \in 1..(MaxN + 1)}
    \cup {<<"a", "@", "b", ".", "c", "c">>, <<"A", "@", "b", ".", "c", "c">>}

ListVals == {Rep(<<"t">>, n) : n \in 0..(MaxN + 1)}

ValuesOf(field) ==
    IF field.IsList THEN ListVals
    ELSE IF field.Kind = "string" THEN StringVals
    ELSE {0}

\* the values of a message with these fields: one value per field
RECURSIVE ValueSeqs(_)
ValueSeqs(fields) ==
    IF fields = <<>> THEN {<<>>}
    ELSE {<<x>> \o rest : x \in ValuesOf(Head(fields)),
                          rest \in ValueSeqs(Tail(fields))}

\* the request of the README's main(): Tags is left unset
ReadmeValue ==
    <<<<"S","h","o","r","t">>, <<"C","o","n","t","e","n","t">>,
      <<"i","n","v","a","l","i","d","-","e","m","a","i","l">>, <<>>>>

\* values of CreateNoteRequest: the README's and ones that pass more checks
ReadmeValues ==
    {<<t, c, e, tags>> :
        t \in {ReadmeValue[1], <<"S","h","o","r">>},
        c \in {ReadmeValue[2], ReadmeValue[2] \o <<"1","2","3">>},
        e \in {ReadmeValue[3], <<"a", "@", "b", ".", "c", "c">>},
        tags \in {<<>>, <<<<"t">>>>}}

MessageValues(msg) ==
    IF msg = CreateNoteRequestMsg THEN ReadmeValues ELSE ValueSeqs(msg.Fields)

AllTemplates == CheckTemplates \cup FileTemplates

\* the bytes of the patterns of the check builder's inputs
PatternBytes == {"a", "\"", "\\", "\n", Lead, Cont}

\* FieldValidations with nothing but a pattern, of up to MaxPat bytes
PatternValidations ==
    {[FieldValidation("Field", "string", FALSE, FALSE) EXCEPT !.Pattern = p] :
        p \in SeqsOf(PatternBytes, 1, MaxPat)}

\* every FieldValidation a caller can hand to buildValidationChecks
FieldValidations ==
    {[FieldValidation("Field", "string", FALSE, FALSE)
        EXCEPT !.MinLen = c[1], !.MaxLen = c[2], !.MinItems = c[3],
               !.MaxItems = c[4], !.Pattern = p, !.Email = e] :
        c \in [1..4 -> OptNum], p \in {<<>>, PUpper}, e \in BOOLEAN}

-----------------------------------------------------------------------------
(* The plugin run and the calls of the generated methods *)

\* the descriptor a generated file was made from
FileOf(g) == request[CHOOSE k \in 1..Len(request) : request[k].Path = g.Source]

\* the top-level message of f that a method belongs to
MessageOf(f, name) ==
    f.Messages[CHOOSE k \in 1..Len(f.Messages) : f.Messages[k].GoName = name]

\* whether the Go compiler accepts a generated file
FileCompiles(g) ==
    /\ g.Written
    /\ g.Formatted
    /\ \A j \in 1..Len(g.Content) :
          /\ g.Content[j].kind # "truncated"
          /\ g.Content[j].kind = "method" =>
                MethodCompiles(g.Content[j],
                               MessageOf(FileOf(g), g.Content[j].MessageName))

NoCall == [File |-> "", Message |-> <<>>, Value |-> <<>>, Result |-> Nil]

\* model.Note{}: the zero value of a note
EmptyNote ==
    [ID |-> "", Title |-> <<>>, Content |-> <<>>, CreatedAt |-> 0,
     UpdatedAt |-> 0]

\* the repository of a server that has stored no note
NoNotes == [id \in {} |-> EmptyNote]

\* no call of the service is waiting for its caller
NoRet ==
    [Op |-> "", ID |-> "", Title |-> <<>>, Content |-> <<>>,
     Note |-> EmptyNote, List |-> <<>>, Err |-> ""]

\* no call of the gRPC handler is waiting for its caller
NoReply ==
    [Method |-> "", ID |-> "", SvcNote |-> EmptyNote, SvcErr |-> Nil,
     Resp |-> Nil, Status |-> Nil]

\* no RPC has reached the gRPC server
NoRpc ==
    [Kind |-> "", Method |-> "", MD |-> Nil, Valid |-> TRUE, Out |-> Nil,
     Ran |-> <<>>, Log |-> <<>>, Status |-> Nil]

\* the goroutines that call Publish
Publishers == {"p1", "p2"}

\* NewEventService: no subscriber, and nothing has happened
EventsIdle ==
    /\ subscribers = {}
    /\ chans = [ch \in {} |-> 0]
    /\ published = 0
    /\ pubs = [p \in Publishers |-> Nil]
    /\ panics = {}
    /\ evOp = [Op |-> "", Ch |-> "", Note |-> 0, Done |-> FALSE]

\* the goroutines that call the note service at the same time
Callers == {"c1", "c2"}

\* no caller has made its call
NoCalls ==
    [c \in Callers |->
        [PC |-> "idle", Op |-> "", ID |-> "", Title |-> <<>>, Content |-> <<>>,
         Read |-> EmptyNote, Note |-> EmptyNote, Err |-> ""]]

\* Chat has not been called
NoChat ==
    [PC |-> "idle", R |-> "off", N |-> "off", W |-> "off", Ctx |-> "live",
     Inbox |-> <<>>, Closed |-> FALSE, Asked |-> 0, Msg |-> <<>>,
     Cont |-> FALSE, Sending |-> [g \in {} |-> 0], Overlap |-> {},
     Recvd |-> <<>>, Out |-> <<>>, ErrChan |-> <<>>, ErrClosed |-> FALSE,
     Eof |-> FALSE, Result |-> Nil, Counter |-> 0]

\* no server has been made
NoSrv ==
    [PC |-> "idle", Ctx |-> "live", GwCtx |-> "live", Grpc |-> "idle",
     Active |-> 0, Go |-> "off", Stopped |-> FALSE, Timeout |-> 0,
     Left |-> 0, Chosen |-> "", Within |-> FALSE, Forced |-> FALSE,
     Result |-> "", Setup |-> "off", Http |-> "off", Served |-> 0]

\* SubscribeToEvents has not been called
NoStream ==
    [PC |-> "idle", Tick |-> "off", Ch |-> "", Note |-> 0, Sent |-> <<>>,
     Err |-> Nil, ErrCh |-> Nil, Ctx |-> "live"]

\* the gRPC server before any call
ServerIdle ==
    /\ reply = NoReply
    /\ rpc = NoRpc
    /\ EventsIdle
    /\ stream = NoStream
    /\ calls = NoCalls
    /\ chat = NoChat
    /\ srv = NoSrv

\* the handler and everything around it before any call
IdleAll ==
    /\ fileIdx = 1
    /\ genFiles = <<>>
    /\ pluginErr = "running"
    /\ stderr = 0
    /\ call = NoCall
    /\ run = 1
    /\ firstFiles = <<>>
    /\ notes = NoNotes
    /\ now = 1
    /\ ret = NoRet
    /\ repoLog = <<>>
    /\ uuids = {}
    /\ ServerIdle
    /\ typeName = Nil
    /\ receivers = <<>>

\* nothing in use, and the note service of NewNoteService behind the
\* handler: it has no GetEventService method
InitIdle == IdleAll /\ hasEvents = FALSE

Init ==
    /\ request \in Requests
    /\ faults = {}
    /\ formatFault = FALSE
    /\ InitIdle
    /\ fv = Nil
    /\ built = Nil

\* main: a file that is not marked for generation
SkipFile ==
    /\ pluginErr = "running"
    /\ fileIdx <= Len(request)
    /\ ~request[fileIdx].Generate
    /\ fileIdx' = fileIdx + 1
    /\ UNCHANGED <<request, faults, formatFault, genFiles, pluginErr, stderr,
                   call, fv, built,
                   run, firstFiles, notes, now, ret, repoLog,
                   uuids, typeName, receivers, serverVars>>

\* main: generateFile on a file marked for generation
GenerateFile ==
    /\ pluginErr = "running"
    /\ fileIdx <= Len(request)
    /\ request[fileIdx].Generate
    /\ \E partial \in (IF faults \cap FileTemplates = {} THEN {FALSE}
                       ELSE BOOLEAN) :
          LET out == generateFileWithTemplate(request[fileIdx], partial)
          IN  /\ genFiles' = genFiles \o out
              /\ stderr' = stderr + SumSeq([i \in 1..Len(out) |-> out[i].Logged])
    /\ fileIdx' = fileIdx + 1
    /\ UNCHANGED <<request, faults, formatFault, pluginErr, call, fv, built,
                   run, firstFiles, notes, now, ret, repoLog,
                   uuids, typeName, receivers, serverVars>>

\* main: the callback returns nil after the last file
MainReturn ==
    /\ pluginErr = "running"
    /\ fileIdx = Len(request) + 1
    /\ pluginErr' = "nil"
    /\ UNCHANGED <<request, faults, formatFault, fileIdx, genFiles, stderr,
                   call, fv, built,
                   run, firstFiles, notes, now, ret, repoLog,
                   uuids, typeName, receivers, serverVars>>

\* a caller runs a generated Validate() on a value of its message; the
\* method reads nothing but its receiver, so a behaviour makes one call
CallValidate ==
    /\ pluginErr = "nil"
    /\ call = NoCall
    /\ \E i \in 1..Len(genFiles) :
          /\ FileCompiles(genFiles[i])
          /\ \E j \in 1..Len(genFiles[i].Content) :
                /\ genFiles[i].Content[j].kind = "method"
                /\ LET method == genFiles[i].Content[j]
                       msg == MessageOf(FileOf(genFiles[i]), method.MessageName)
                   IN  \E val \in MessageValues(msg) :
                          call' = [File |-> genFiles[i].Name,
                                   Message |-> method.MessageName,
                                   Value |-> val,
                                   Result |-> Validate(method, msg, val)]
    /\ UNCHANGED <<request, faults, formatFault, fileIdx, genFiles, pluginErr,
                   stderr, fv, built,
                   run, firstFiles, notes, now, ret, repoLog,
                   uuids, typeName, receivers, serverVars>>

Next == SkipFile \/ GenerateFile \/ MainReturn \/ CallValidate

Spec == Init /\ [][Next]_vars

-----------------------------------------------------------------------------
(* The note service over the in-memory repository *)

\* the bytes strings.TrimSpace cuts off
Space == {" ", "\t", "\n"}

RECURSIVE TrimLeft(_)
TrimLeft(s) ==
    IF s # <<>> /\ Head(s) \in Space THEN TrimLeft(Tail(s)) ELSE s

RECURSIVE TrimRight(_)
TrimRight(s) ==
    IF s # <<>> /\ s[Len(s)] \in Space
    THEN TrimRight(SubSeq(s, 1, Len(s) - 1)) ELSE s

\* strings.TrimSpace
TrimSpace(s) == TrimRight(TrimLeft(s))

ErrNoteNotFound == "note not found"

\* the IDs uuid.New() can hand out, each at most once
NoteIDs == {"n1", "n2"}

\* the IDs a caller can ask for: none, a handed out one, a foreign one
GivenIDs == {""} \cup NoteIDs \cup {"zz"}

\* titles and contents a caller can give: empty, blank, padded, plain
GivenTitles == {<<>>, <<" ", " ">>, <<"a">>, <<" ", "b", "\t">>}
GivenContents == {<<>>, <<" ", "c", "\n">>, <<" ">>}

\* Note.Validate
NoteValidate(n) ==
    IF TrimSpace(n.Title) = <<>> THEN "title cannot be empty" ELSE ""

\* what a method of the repository or of the service leaves and returns
Outcome(ns, note, list, err, log) ==
    [Notes |-> ns, Note |-> note, List |-> list, Err |-> err, Log |-> log]

\* ns with note stored under its ID
Stored(ns, note) ==
    [id \in DOMAIN ns \cup {note.ID} |-> IF id = note.ID THEN note ELSE ns[id]]

\* mutant: the note is stored and returned without the generated ID
repoCreate_NoID(ns, note, uuid, t) ==
    LET stamped == [note EXCEPT
                       !.CreatedAt = IF @ = 0 THEN t ELSE @,
                       !.UpdatedAt = t]
    IN  Outcome(Stored(ns, stamped), stamped, <<>>, "", <<"Create">>)

\* repo.Create; uuid is what uuid.New() returns, t what time.Now() returns
repoCreate(ns, note, uuid, t) ==
    LET withID == IF note.ID = "" THEN [note EXCEPT !.ID = uuid] ELSE note
        stamped == [withID EXCEPT
                       !.CreatedAt = IF @ = 0 THEN t ELSE @,
                       !.UpdatedAt = t]
    IN  Outcome(Stored(ns, stamped), stamped, <<>>, "", <<"Create">>)

\* repo.GetByID
repoGetByID(ns, id) ==
    IF id \notin DOMAIN ns
    THEN Outcome(ns, EmptyNote, <<>>, ErrNoteNotFound, <<"GetByID">>)
    ELSE Outcome(ns, ns[id], <<>>, "", <<"GetByID">>)

\* repo.Update
repoUpdate(ns, note, t) ==
    IF note.ID \notin DOMAIN ns
    THEN Outcome(ns, EmptyNote, <<>>, ErrNoteNotFound, <<"Update">>)
    ELSE Outcome(Stored(ns, [note EXCEPT !.UpdatedAt = t]),
                 [note EXCEPT !.UpdatedAt = t], <<>>, "", <<"Update">>)

\* mutant: deleting what is not stored succeeds
repoDelete_Idempotent(ns, id) ==
    Outcome([i \in DOMAIN ns \ {id} |-> ns[i]], EmptyNote, <<>>, "",
            <<"Delete">>)

\* repo.Delete
repoDelete(ns, id) ==
    IF id \notin DOMAIN ns
    THEN Outcome(ns, EmptyNote, <<>>, ErrNoteNotFound, <<"Delete">>)
    ELSE Outcome([i \in DOMAIN ns \ {id} |-> ns[i]], EmptyNote, <<>>, "",
                 <<"Delete">>)

\* the orders in which ranging over the map can visit the notes
RECURSIVE Orders(_, _)
Orders(ns, ids) ==
    IF ids = {} THEN {<<>>}
    ELSE UNION {{<<ns[id]>> \o rest : rest \in Orders(ns, ids \ {id})} :
                   id \in ids}

\* a failing method of the service returns its error and an empty note
Failed(ns, err, log) == Outcome(ns, EmptyNote, <<>>, err, log)

\* mutant: only the empty title is refused, a blank one is stored
Create_Untrimmed(ns, title, content, uuid, t) ==
    IF title = <<>>
    THEN Failed(ns, "title cannot be empty", <<>>)
    ELSE repoCreate(ns, [ID |-> "", Title |-> TrimSpace(title),
                         Content |-> TrimSpace(content), CreatedAt |-> t,
                         UpdatedAt |-> t], uuid, t)

\* service.Create
Create(ns, title, content, uuid, t) ==
    IF TrimSpace(title) = <<>>
    THEN Failed(ns, "title cannot be empty", <<>>)
    ELSE repoCreate(ns, [ID |-> "", Title |-> TrimSpace(title),
                         Content |-> TrimSpace(content), CreatedAt |-> t,
                         UpdatedAt |-> t], uuid, t)

\* service.Get
Get(ns, id) ==
    IF id = "" THEN Failed(ns, "id cannot be empty", <<>>)
    ELSE repoGetByID(ns, id)

\* mutant: the title is replaced by the trimmed one, blank or not
Merged_AnyTitle(existingNote, title, content, t) ==
    [existingNote EXCEPT
        !.Title = TrimSpace(title),
        !.Content = TrimSpace(content),
        !.UpdatedAt = t]

\* the note service.Update hands to Validate and to repo.Update: the note
\* GetByID read with the given title unless it is blank, the given content
\* and the time
Merged(existingNote, title, content, t) ==
    [existingNote EXCEPT
        !.Title = IF TrimSpace(title) # <<>> THEN TrimSpace(title) ELSE @,
        !.Content = TrimSpace(content),
        !.UpdatedAt = t]

\* service.Update after GetByID has returned the note read
UpdateRead(ns, read, title, content, t) ==
    IF NoteValidate(Merged(read, title, content, t)) # ""
    THEN Failed(ns, NoteValidate(Merged(read, title, content, t)),
                <<"GetByID">>)
    ELSE [repoUpdate(ns, Merged(read, title, content, t), t)
             EXCEPT !.Log = <<"GetByID", "Update">>]

\* service.Update
Update(ns, id, title, content, t) ==
    IF id = "" THEN Failed(ns, "id cannot be empty", <<>>)
    ELSE IF repoGetByID(ns, id).Err # ""
    THEN Failed(ns, repoGetByID(ns, id).Err, <<"GetByID">>)
    ELSE UpdateRead(ns, repoGetByID(ns, id).Note, title, content, t)

\* mutant: the empty id goes to the repository like any other
Delete_Unchecked(ns, id) == repoDelete(ns, id)

\* service.Delete
Delete(ns, id) ==
    IF id = "" THEN Failed(ns, "id cannot be empty", <<>>)
    ELSE repoDelete(ns, id)

\* a call of the service was made and returned out
Returned(op, id, title, content, out) ==
    /\ notes' = out.Notes
    /\ repoLog' = out.Log
    /\ ret' = [Op |-> op, ID |-> id, Title |-> title, Content |-> content,
               Note |-> out.Note, List |-> out.List, Err |-> out.Err]

InitNotes ==
    /\ request = <<>>
    /\ faults = {}
    /\ formatFault = FALSE
    /\ fv = Nil
    /\ built = Nil
    /\ InitIdle

CallCreate ==
    /\ ret = NoRet
    /\ \E title \in GivenTitles, content \in GivenContents :
          \/ /\ TrimSpace(title) = <<>>
             /\ Returned("Create", "", title, content,
                         Create(notes, title, content, "", now))
             /\ UNCHANGED uuids
          \/ /\ TrimSpace(title) # <<>>
             /\ \E uuid \in NoteIDs \ uuids :
                   /\ Returned("Create", "", title, content,
                               Create(notes, title, content, uuid, now))
                   /\ uuids' = uuids \cup {uuid}
    /\ UNCHANGED <<now, pluginVars, serverVars>>

CallGet ==
    /\ ret = NoRet
    /\ \E id \in GivenIDs : Returned("Get", id, <<>>, <<>>, Get(notes, id))
    /\ UNCHANGED <<now, uuids, pluginVars, serverVars>>

\* service.List
CallList ==
    /\ ret = NoRet
    /\ \E list \in Orders(notes, DOMAIN notes) :
          Returned("List", "", <<>>, <<>>,
                   Outcome(notes, EmptyNote, list, "", <<"List">>))
    /\ UNCHANGED <<now, uuids, pluginVars, serverVars>>

CallUpdate ==
    /\ ret = NoRet
    /\ \E id \in GivenIDs, title \in GivenTitles, content \in GivenContents :
          Returned("Update", id, title, content,
                   Update(notes, id, title, content, now))
    /\ UNCHANGED <<now, uuids, pluginVars, serverVars>>

CallDelete ==
    /\ ret = NoRet
    /\ \E id \in GivenIDs :
          Returned("Delete", id, <<>>, <<>>, Delete(notes, id))
    /\ UNCHANGED <<now, uuids, pluginVars, serverVars>>

\* the caller has taken the result of its call
TakeResult ==
    /\ ret # NoRet
    /\ ret' = NoRet
    /\ repoLog' = <<>>
    /\ UNCHANGED <<notes, now, uuids, pluginVars, serverVars>>

\* time passes between two calls
Tick ==
    /\ ret = NoRet
    /\ now < MaxClock
    /\ now' = now + 1
    /\ UNCHANGED <<notes, ret, repoLog, uuids, pluginVars, serverVars>>

NextNotes ==
    \/ CallCreate
    \/ CallGet
    \/ CallList
    \/ CallUpdate
    \/ CallDelete
    \/ TakeResult
    \/ Tick

SpecNotes == InitNotes /\ [][NextNotes]_vars

-----------------------------------------------------------------------------
(* Two goroutines calling Update and Delete on the same note *)

\* the note both callers work on
SharedID == "n1"

\* the store after Create("a", "c") has returned the note n1
SharedNotes == Create(NoNotes, <<"a">>, <<"c">>, SharedID, 1).Notes

\* the calls a caller can make on the shared note
SharedCalls ==
    {[Op |-> "Update", Title |-> title, Content |-> content] :
        title \in GivenTitles, content \in GivenContents}
    \cup {[Op |-> "Delete", Title |-> <<>>, Content |-> <<>>]}

\* caller c has returned from its call with out
Finished(c, out) ==
    /\ notes' = out.Notes
    /\ calls' = [calls EXCEPT ![c].PC = "done", ![c].Note = out.Note,
                                ![c].Err = out.Err]

\* the rest of the state while the callers work
CallersAside ==
    UNCHANGED <<now, ret, repoLog, uuids, pluginVars, reply, rpc, eventVars,
                streamVars, chat, srv>>

\* a goroutine enters service.Update or service.Delete
Enter(c) ==
    /\ calls[c].PC = "idle"
    /\ \E k \in SharedCalls :
          calls' = [calls EXCEPT ![c].PC = "called", ![c].Op = k.Op,
                                  ![c].ID = SharedID, ![c].Title = k.Title,
                                  ![c].Content = k.Content]
    /\ UNCHANGED notes
    /\ CallersAside

\* service.Update up to the return of noteRepository.GetByID, which holds
\* r.mu for reading and releases it
UpdateGet(c) ==
    /\ calls[c].PC = "called"
    /\ calls[c].Op = "Update"
    /\ IF Get(notes, calls[c].ID).Err # ""
       THEN Finished(c, Failed(notes, Get(notes, calls[c].ID).Err, <<>>))
       ELSE /\ calls' = [calls EXCEPT ![c].PC = "read",
                                       ![c].Read = Get(notes, calls[c].ID).Note]
            /\ UNCHANGED notes
    /\ CallersAside

\* service.Update from the merge to the return of noteRepository.Update,
\* which takes r.mu again
UpdatePut(c) ==
    /\ calls[c].PC = "read"
    /\ Finished(c, UpdateRead(notes, calls[c].Read, calls[c].Title,
                              calls[c].Content, now))
    /\ CallersAside

\* service.Delete: one critical section of the repository
DeleteNow(c) ==
    /\ calls[c].PC = "called"
    /\ calls[c].Op = "Delete"
    /\ Finished(c, Delete(notes, calls[c].ID))
    /\ CallersAside

\* the store holds the shared note and nobody has called
InitShared ==
    /\ request = <<>>
    /\ faults = {}
    /\ formatFault = FALSE
    /\ fv = Nil
    /\ built = Nil
    /\ fileIdx = 1
    /\ genFiles = <<>>
    /\ pluginErr = "running"
    /\ stderr = 0
    /\ call = NoCall
    /\ run = 1
    /\ firstFiles = <<>>
    /\ notes = SharedNotes
    /\ now = MaxClock
    /\ ret = NoRet
    /\ repoLog = <<>>
    /\ uuids = {SharedID}
    /\ ServerIdle
    /\ hasEvents = FALSE
    /\ typeName = Nil
    /\ receivers = <<>>

NextShared ==
    \/ \E c \in Callers : Enter(c)
    \/ \E c \in Callers : UpdateGet(c)
    \/ \E c \in Callers : UpdatePut(c)
    \/ \E c \in Callers : DeleteNow(c)

SpecShared == InitShared /\ [][NextShared]_vars

-----------------------------------------------------------------------------
(* The gRPC handler over a service that returns what the test tells it to *)

\* the messages of the errors a service can return
MsgNoteNotFound ==
    <<"n","o","t","e"," ","n","o","t"," ","f","o","u","n","d">>
MsgWrapped ==
    <<"g","e","t"," ","n","o","t","e",":"," ","n","o","t","e"," ","n","o",
      "t"," ","f","o","u","n","d">>
MsgInvalidWrapped ==
    <<"i","n","v","a","l","i","d"," ","i","d",":"," ","n","o","t","e"," ",
      "n","o","t"," ","f","o","u","n","d">>
MsgTitleEmpty ==
    <<"t","i","t","l","e"," ","c","a","n","n","o","t"," ","b","e"," ","e",
      "m","p","t","y">>
MsgIDEmpty ==
    <<"i","d"," ","c","a","n","n","o","t"," ","b","e"," ","e","m","p","t",
      "y">>
MsgTitleEmptyCaps ==
    <<"T","i","t","l","e"," ","C","a","n","n","o","t"," ","B","e"," ","E",
      "m","p","t","y">>
MsgInvalidCaps ==
    <<"I","N","V","A","L","I","D"," ","r","e","q","u","e","s","t">>
MsgContentEmpty ==
    <<"c","o","n","t","e","n","t"," ","c","a","n","n","o","t"," ","b","e",
      " ","e","m","p","t","y">>
MsgInternal ==
    <<"s","o","m","e"," ","i","n","t","e","r","n","a","l"," ","e","r","r",
      "o","r">>
MsgNearMiss ==
    <<"c","a","n","n","o","t"," ","b","e"," ","e","m","p","t">>
MsgValid ==
    <<"n","o","t"," ","v","a","l","i","d">>

MsgInternalError ==
    <<"i","n","t","e","r","n","a","l"," ","e","r","r","o","r">>

\* an error: whether errors.Is(err, memory.ErrNoteNotFound), and err.Error()
Error(isNotFound, msg) == Some([IsNotFound |-> isNotFound, Msg |-> msg])

\* memory.ErrNoteNotFound itself and errors that wrap it
NotFoundErrors ==
    {Error(TRUE, m) : m \in {MsgNoteNotFound, MsgWrapped, MsgInvalidWrapped}}

\* errors.New(m) for each message, the empty one included
PlainErrors ==
    {Error(FALSE, m) :
        m \in {MsgNoteNotFound, MsgTitleEmpty, MsgIDEmpty, MsgTitleEmptyCaps,
               MsgInvalidCaps, MsgContentEmpty, MsgInternal, MsgNearMiss,
               MsgValid, <<>>}}

Errors == NotFoundErrors \cup PlainErrors

\* strings.ToLower
ToLowerString(s) == [i \in 1..Len(s) |-> ToLower(s[i])]

\* strings.Contains
Contains(s, substr) ==
    \E i \in 1..(Len(s) - Len(substr) + 1) :
        SubSeq(s, i, i + Len(substr) - 1) = substr

CannotBeEmpty == <<"c","a","n","n","o","t"," ","b","e"," ","e","m","p","t","y">>
Invalid == <<"i","n","v","a","l","i","d">>

\* fmt.Sprintf(text, ...) of a Reason: the fixed text, the error message
\* and the note ID put into it
Reason(text, msg, id) == [Text |-> text, Err |-> msg, ID |-> id]

\* notesv1.ErrorDetails
ErrorDetails(reason, noteId, internalErrorCode) ==
    [Reason |-> reason, NoteId |-> noteId,
     InternalErrorCode |-> internalErrorCode]

\* status.New
StatusNew(code, message) ==
    Some([Code |-> code, Message |-> message, Details |-> <<>>])

\* Status.WithDetails: the status with the detail, or nothing and an error
\* for a status with code OK
WithDetails(st, detail) ==
    IF st = Nil \/ st[1].Code = "OK" THEN Nil
    ELSE Some([st[1] EXCEPT !.Details = Append(@, detail)])

\* Status.Err: nil for no status and for code OK
StatusErr(st) == IF st = Nil \/ st[1].Code = "OK" THEN Nil ELSE st

\* the Reason of a validation error, by the field its message names
ValidationReason(err) ==
    IF Contains(ToLowerString(err.Msg), <<"t","i","t","l","e">>)
    THEN Reason("Title field validation failed: ", err.Msg, "")
    ELSE IF Contains(ToLowerString(err.Msg), <<"i","d">>)
    THEN Reason("ID field validation failed: ", err.Msg, "")
    ELSE Reason("Validation failed: %s", err.Msg, "")

\* mutant: the message is looked at before errors.Is
handleError_MessageFirst(err) ==
    IF err = Nil THEN Nil
    ELSE IF \/ Contains(ToLowerString(err[1].Msg), CannotBeEmpty)
            \/ Contains(ToLowerString(err[1].Msg), Invalid)
    THEN StatusErr(WithDetails(StatusNew("InvalidArgument", err[1].Msg),
             ErrorDetails(ValidationReason(err[1]), "", "VALIDATION_ERROR")))
    ELSE IF err[1].IsNotFound
    THEN StatusErr(WithDetails(StatusNew("NotFound", MsgNoteNotFound),
             ErrorDetails(
                Reason("The requested note was not found in the database",
                       <<>>, ""),
                "", "NOTE_NOT_FOUND")))
    ELSE StatusErr(WithDetails(
             StatusNew("Internal", MsgInternalError),
             ErrorDetails(Reason("An internal error occurred: %v",
                                 err[1].Msg, ""),
                          "", "INTERNAL_ERROR")))

handleError(err) ==
    IF err = Nil THEN Nil
    ELSE IF err[1].IsNotFound
    THEN StatusErr(WithDetails(StatusNew("NotFound", MsgNoteNotFound),
             ErrorDetails(
                Reason("The requested note was not found in the database",
                       <<>>, ""),
                "", "NOTE_NOT_FOUND")))
    ELSE IF \/ Contains(ToLowerString(err[1].Msg), CannotBeEmpty)
            \/ Contains(ToLowerString(err[1].Msg), Invalid)
    THEN StatusErr(WithDetails(StatusNew("InvalidArgument", err[1].Msg),
             ErrorDetails(ValidationReason(err[1]), "", "VALIDATION_ERROR")))
    ELSE StatusErr(WithDetails(
             StatusNew("Internal", MsgInternalError),
             ErrorDetails(Reason("An internal error occurred: %v",
                                 err[1].Msg, ""),
                          "", "INTERNAL_ERROR")))

\* converter.ModelToProto: a zero time becomes no timestamp
ModelToProto(note) ==
    [Id |-> note.ID, Title |-> note.Title, Content |-> note.Content,
     CreatedAt |-> IF note.CreatedAt = 0 THEN Nil ELSE Some(note.CreatedAt),
     UpdatedAt |-> IF note.UpdatedAt = 0 THEN Nil ELSE Some(note.UpdatedAt)]

\* converter.ModelsToProtos
ModelsToProtos(list) == [i \in 1..Len(list) |-> ModelToProto(list[i])]

\* what a method of the handler returns: a response or a status error
Answer(resp, st) == [Resp |-> resp, Status |-> st]

\* a response with a note, a response with a list of notes
NoteResponse(note) == Some([Note |-> Some(ModelToProto(note)), Notes |-> <<>>])
ListResponse(list) == Some([Note |-> Nil, Notes |-> ModelsToProtos(list)])
EmptyResponse == Some([Note |-> Nil, Notes |-> <<>>])

\* Handler.CreateNote and Handler.UpdateNote after the call of the service
NoteOrError(note, err) ==
    IF err # Nil THEN Answer(Nil, handleError(err))
    ELSE Answer(NoteResponse(note), Nil)

\* the status of GetNote for a note that was not found
NotFoundWithID(id, err) ==
    IF WithDetails(StatusNew("NotFound", MsgNoteNotFound),
                   ErrorDetails(
                      Reason("Note with ID %s was searched but not found in DB",
                             <<>>, id), id, "")) = Nil
    THEN StatusNew("NotFound", MsgNoteNotFound \o <<":", " ">> \o err[1].Msg)
    ELSE StatusErr(WithDetails(StatusNew("NotFound", MsgNoteNotFound),
                   ErrorDetails(
                      Reason("Note with ID %s was searched but not found in DB",
                             <<>>, id), id, "")))

\* mutant: a note that was not found is answered like any other error
GetNote_Generic(id, note, err) == NoteOrError(note, err)

\* Handler.GetNote after the call of the service
GetNote(id, note, err) ==
    IF err # Nil /\ err[1].IsNotFound THEN Answer(Nil, NotFoundWithID(id, err))
    ELSE NoteOrError(note, err)

\* Handler.ListNotes after the call of the service
ListNotes(list, err) ==
    IF err # Nil THEN Answer(Nil, handleError(err))
    ELSE Answer(ListResponse(list), Nil)

\* Handler.DeleteNote after the call of the service
DeleteNote(err) ==
    IF err # Nil THEN Answer(Nil, handleError(err))
    ELSE Answer(EmptyResponse, Nil)

\* the IDs of the requests of the handler's tests
RequestIDs == {"", "n1", "zz"}

\* the notes the service of the tests returns: none, and stored ones
ServiceNotes ==
    {EmptyNote}
    \cup {[ID |-> id, Title |-> <<"a">>, Content |-> c, CreatedAt |-> 1,
           UpdatedAt |-> u] : id \in {"n1", "zz"}, c \in {<<>>, <<"c">>},
                              u \in {0, 2}}

\* the handler was called and answered
Replied(method, id, note, err, answer) ==
    /\ reply = NoReply
    /\ reply' = [Method |-> method, ID |-> id, SvcNote |-> note,
                 SvcErr |-> err, Resp |-> answer.Resp,
                 Status |-> answer.Status]
    /\ UNCHANGED <<pluginVars, notesVars, rpc, eventVars, streamVars, lifeVars>>

InitHandler ==
    /\ request = <<>>
    /\ faults = {}
    /\ formatFault = FALSE
    /\ fv = Nil
    /\ built = Nil
    /\ InitIdle

RpcCreateNote ==
    \E note \in ServiceNotes, err \in {Nil} \cup Errors :
        Replied("CreateNote", "", note, err, NoteOrError(note, err))

RpcGetNote ==
    \E id \in RequestIDs, note \in ServiceNotes, err \in {Nil} \cup Errors :
        Replied("GetNote", id, note, err, GetNote(id, note, err))

RpcListNotes ==
    \E note \in ServiceNotes, err \in {Nil} \cup Errors :
        Replied("ListNotes", "", note, err, ListNotes(<<note, note>>, err))

RpcUpdateNote ==
    \E id \in RequestIDs, note \in ServiceNotes, err \in {Nil} \cup Errors :
        Replied("UpdateNote", id, note, err, NoteOrError(note, err))

RpcDeleteNote ==
    \E id \in RequestIDs, err \in {Nil} \cup Errors :
        Replied("DeleteNote", id, EmptyNote, err, DeleteNote(err))

\* the tests of handleError call it on an error of their own
CallHandleError ==
    \E err \in {Nil} \cup Errors :
        Replied("handleError", "", EmptyNote, err,
                Answer(Nil, handleError(err)))

\* the caller has taken the answer
TakeReply ==
    /\ reply # NoReply
    /\ reply' = NoReply
    /\ UNCHANGED <<pluginVars, notesVars, rpc, eventVars, streamVars, lifeVars>>

NextHandler ==
    \/ RpcCreateNote
    \/ RpcGetNote
    \/ RpcListNotes
    \/ RpcUpdateNote
    \/ RpcDeleteNote
    \/ CallHandleError
    \/ TakeReply

SpecHandler == InitHandler /\ [][NextHandler]_vars

-----------------------------------------------------------------------------
(* The gRPC server: an RPC on its way through the interceptors *)

\* "Bearer " and expectedToken
BearerPrefix == <<"B","e","a","r","e","r"," ">>
expectedToken ==
    <<"m","y","-","s","e","c","r","e","t","-","t","o","k","e","n">>

\* strings.HasPrefix and strings.TrimPrefix
HasPrefix(s, prefix) ==
    Len(s) >= Len(prefix) /\ SubSeq(s, 1, Len(prefix)) = prefix
TrimPrefix(s, prefix) ==
    IF HasPrefix(s, prefix) THEN SubSeq(s, Len(prefix) + 1, Len(s)) ELSE s

\* values of the authorization header: the right one, a wrong token, no
\* scheme, the scheme in lower case, a second blank, a trailing blank, none
AuthHeaders ==
    {BearerPrefix \o expectedToken,
     BearerPrefix \o <<"w","r","o","n","g">>,
     expectedToken,
     <<"b","e","a","r","e","r"," ">> \o expectedToken,
     BearerPrefix \o <<" ">> \o expectedToken,
     BearerPrefix \o expectedToken \o <<" ">>,
     BearerPrefix,
     <<>>}

\* the incoming metadata: none at all, or the values of authorization
Metadata ==
    {Nil, Some(<<>>)}
    \cup {Some(<<h>>) : h \in AuthHeaders}
    \cup {Some(<<h, BearerPrefix \o expectedToken>>) : h \in AuthHeaders}

\* status.Errorf
StatusErrorf(code, message) == Some([Code |-> code, Message |-> message])

\* what the rest of a chain did: the stages entered, the lines logged and
\* the error returned
Chain(ran, log, st) == [Ran |-> ran, Log |-> log, Status |-> st]

\* the method of the service itself; out is the error it returns
RunHandler(out) == Chain(<<"Handler">>, <<>>, out)

\* a stage that went on to the next one
Entered(stage, next) == [next EXCEPT !.Ran = <<stage>> \o @]

\* AuthUnaryInterceptor; next is what handler(ctx, req) does
AuthUnaryInterceptor(md, next) ==
    IF md = Nil
    THEN Chain(<<"Auth">>, <<>>,
               StatusErrorf("Unauthenticated", "metadata not provided"))
    ELSE IF Len(md[1]) = 0
    THEN Chain(<<"Auth">>, <<>>,
               StatusErrorf("Unauthenticated",
                            "authorization header not provided"))
    ELSE IF ~HasPrefix(md[1][1], BearerPrefix)
    THEN Chain(<<"Auth">>, <<>>,
               StatusErrorf("Unauthenticated",
                            "invalid authorization header format"))
    ELSE IF TrimPrefix(md[1][1], BearerPrefix) # expectedToken
    THEN Chain(<<"Auth">>, <<>>,
               StatusErrorf("Unauthenticated", "invalid token"))
    ELSE Entered("Auth", next)

\* ValidateUnaryInterceptor; valid is whether validator.Validate returns nil
ValidateUnaryInterceptor(valid, next) ==
    IF ~valid
    THEN Chain(<<"Validate">>, <<>>,
               StatusErrorf("InvalidArgument", "validation failed: %v"))
    ELSE Entered("Validate", next)

\* LoggerUnaryInterceptor: a line before the handler and one after it
LoggerUnaryInterceptor(method, next) ==
    [Entered("Logger", next) EXCEPT
        !.Log = <<"Incoming request: " \o method>> \o @ \o
                <<IF next.Status # Nil
                  THEN "Request " \o method \o " failed with status "
                           \o next.Status[1].Code
                  ELSE "Request " \o method \o " completed successfully">>]

\* mutant: the token is checked before the request is validated
ChainUnaryInterceptor_AuthFirst(method, md, valid, out) ==
    LoggerUnaryInterceptor(method,
        AuthUnaryInterceptor(md,
            ValidateUnaryInterceptor(valid, RunHandler(out))))

\* grpc.ChainUnaryInterceptor(Logger, Validate, Auth): the first is the
\* outermost
ChainUnaryInterceptor(method, md, valid, out) ==
    LoggerUnaryInterceptor(method,
        ValidateUnaryInterceptor(valid,
            AuthUnaryInterceptor(md, RunHandler(out))))

\* StreamInterceptor: logs, wraps the stream and calls the handler
StreamInterceptor(method, next) ==
    [Entered("Stream", next) EXCEPT
        !.Log = <<"Stream connection established: " \o method>> \o @ \o
                <<IF next.Status # Nil THEN "Stream handler error"
                  ELSE "Stream completed successfully: " \o method>>]

\* grpc.ChainStreamInterceptor(StreamInterceptor)
ChainStreamInterceptor(method, out) == StreamInterceptor(method, RunHandler(out))

UnaryMethods ==
    {"CreateNote", "GetNote", "ListNotes", "UpdateNote", "DeleteNote"}
StreamMethods == {"SubscribeToEvents", "UploadMetrics", "Chat"}

\* the errors a method of the service can end with
HandlerOutcomes == {Nil, StatusErrorf("NotFound", "note not found")}

\* the server has answered an RPC
Served(kind, method, md, valid, out, chain) ==
    /\ rpc = NoRpc
    /\ rpc' = [Kind |-> kind, Method |-> method, MD |-> md, Valid |-> valid,
               Out |-> out, Ran |-> chain.Ran, Log |-> chain.Log,
               Status |-> chain.Status]
    /\ UNCHANGED <<pluginVars, notesVars, reply, eventVars, streamVars, lifeVars>>

InitServer ==
    /\ request = <<>>
    /\ faults = {}
    /\ formatFault = FALSE
    /\ fv = Nil
    /\ built = Nil
    /\ InitIdle

UnaryRpc ==
    \E method \in UnaryMethods, md \in Metadata, valid \in BOOLEAN :
        \E out \in HandlerOutcomes :
            Served("unary", method, md, valid, out,
                   ChainUnaryInterceptor(method, md, valid, out))

StreamRpc ==
    \E method \in StreamMethods, md \in Metadata, out \in HandlerOutcomes :
        Served("stream", method, md, TRUE, out,
               ChainStreamInterceptor(method, out))

\* the client has its answer
RpcDone ==
    /\ rpc # NoRpc
    /\ rpc' = NoRpc
    /\ UNCHANGED <<pluginVars, notesVars, reply, eventVars, streamVars, lifeVars>>

NextServer == UnaryRpc \/ StreamRpc \/ RpcDone

SpecServer == InitServer /\ [][NextServer]_vars

-----------------------------------------------------------------------------
(* EventService: subscribers, their channels, and Publish *)

\* make(chan model.Note, 10): the capacity of a subscriber's channel
ChanCap == 10

\* the channels Subscribe can make
Channels == {"ch1", "ch2"}

\* the calls of Publish of one run: enough to overfill a channel
MaxPublished == ChanCap + 2

\* make(chan model.Note, 10): an open channel with nothing pending
MakeChan == [Buf |-> <<>>, Closed |-> FALSE]

\* a channel operation: the channel afterwards and the panic it raised
Effect(c, panic) == [Chan |-> c, Panic |-> panic]

\* a Send that enqueues whatever is pending
Send_Unbounded(c, note) == Effect([c EXCEPT !.Buf = Append(@, note)], {})

\* select { case ch <- note: default: }: a send on a closed channel panics,
\* a send on a channel with room enqueues, a send on a full one is skipped
Send(c, note) ==
    IF c.Closed THEN Effect(c, {"send on closed channel"})
    ELSE IF Len(c.Buf) < ChanCap
         THEN Effect([c EXCEPT !.Buf = Append(@, note)], {})
         ELSE Effect(c, {})

\* close(ch): closing a closed channel panics
Close(c) ==
    IF c.Closed THEN Effect(c, {"close of closed channel"})
    ELSE Effect([c EXCEPT !.Closed = TRUE], {})

\* an Unsubscribe that takes every channel for a registered one
Registered_Always(subs, ch) == TRUE

\* if _, ok := s.subscribers[ch]; ok
Registered(subs, ch) == ch \in subs

\* the goroutines that hold s.mu for reading
Readers == {p \in Publishers : pubs[p] # Nil}

\* the last step of the event service
Op(op, ch, note, done) == [Op |-> op, Ch |-> ch, Note |-> note, Done |-> done]

\* Subscribe: a new channel, registered under the write lock
Subscribe(ch) ==
    /\ ch \notin DOMAIN chans
    /\ Readers = {}
    /\ chans' = [c \in DOMAIN chans \cup {ch} |->
                    IF c = ch THEN MakeChan ELSE chans[c]]
    /\ subscribers' = subscribers \cup {ch}
    /\ evOp' = Op("Subscribe", ch, 0, TRUE)
    /\ UNCHANGED <<published, pubs, panics>>

\* Unsubscribe: under the write lock, close and delete a registered channel
Unsubscribe(ch) ==
    /\ ch \in DOMAIN chans
    /\ Readers = {}
    /\ IF Registered(subscribers, ch)
       THEN /\ chans' = [chans EXCEPT ![ch] = Close(@).Chan]
            /\ panics' = panics \cup Close(chans[ch]).Panic
            /\ subscribers' = subscribers \ {ch}
            /\ evOp' = Op("Unsubscribe", ch, 0, TRUE)
       ELSE /\ evOp' = Op("Unsubscribe", ch, 0, FALSE)
            /\ UNCHANGED <<chans, panics, subscribers>>
    /\ UNCHANGED <<published, pubs>>

\* Publish, s.mu.RLock(): the loop ranges over the registered channels
PublishLock(p) ==
    /\ pubs[p] = Nil
    /\ published < MaxPublished
    /\ published' = published + 1
    /\ pubs' = [pubs EXCEPT ![p] =
                   Some([Note |-> published + 1, Todo |-> subscribers])]
    /\ evOp' = Op("RLock", p, published + 1, TRUE)
    /\ UNCHANGED <<subscribers, chans, panics>>

\* Publish, one turn of the loop: the select on one channel, in map order
PublishSend(p, ch) ==
    /\ pubs[p] # Nil
    /\ ch \in pubs[p][1].Todo
    /\ chans' = [chans EXCEPT ![ch] = Send(@, pubs[p][1].Note).Chan]
    /\ panics' = panics \cup Send(chans[ch], pubs[p][1].Note).Panic
    /\ pubs' = [pubs EXCEPT ![p] = Some([pubs[p][1] EXCEPT !.Todo = @ \ {ch}])]
    /\ evOp' = Op("Send", ch, pubs[p][1].Note, TRUE)
    /\ UNCHANGED <<subscribers, published>>

\* Publish, the deferred s.mu.RUnlock() after the loop
PublishUnlock(p) ==
    /\ pubs[p] # Nil
    /\ pubs[p][1].Todo = {}
    /\ pubs' = [pubs EXCEPT ![p] = Nil]
    /\ evOp' = Op("RUnlock", p, pubs[p][1].Note, TRUE)
    /\ UNCHANGED <<subscribers, chans, published, panics>>

\* the subscriber takes the oldest pending note from its channel
Receive(ch) ==
    /\ ch \in DOMAIN chans
    /\ chans[ch].Buf # <<>>
    /\ chans' = [chans EXCEPT ![ch].Buf = Tail(@)]
    /\ evOp' = Op("Receive", ch, Head(chans[ch].Buf), TRUE)
    /\ UNCHANGED <<subscribers, published, pubs, panics>>

\* the rest of the state while the event service works
EventsAside ==
    UNCHANGED <<pluginVars, notesVars, reply, rpc, streamVars, lifeVars>>

\* NewEventService, and nothing else in use
InitEvents ==
    /\ request = <<>>
    /\ faults = {}
    /\ formatFault = FALSE
    /\ fv = Nil
    /\ built = Nil
    /\ InitIdle

\* calls of Publish one after another, each running to its end
NextEvents ==
    \/ (\E ch \in Channels : Subscribe(ch)) /\ EventsAside
    \/ (\E ch \in Channels : Unsubscribe(ch)) /\ EventsAside
    \/ PublishLock("p1") /\ EventsAside
    \/ (\E ch \in Channels : PublishSend("p1", ch)) /\ EventsAside
    \/ PublishUnlock("p1") /\ EventsAside
    \/ (\E ch \in Channels : Receive(ch)) /\ EventsAside

SpecEvents == InitEvents /\ [][NextEvents]_vars

\* Publish called by a goroutine while another call may be under way
RacePublish(p) == published < MaxRace /\ PublishLock(p)

\* Subscribe, Unsubscribe and Publish called concurrently: the steps of the
\* calls interleave as s.mu allows
NextRace ==
    \/ (\E ch \in Channels : Subscribe(ch)) /\ EventsAside
    \/ (\E ch \in Channels : Unsubscribe(ch)) /\ EventsAside
    \/ (\E p \in Publishers : RacePublish(p)) /\ EventsAside
    \/ (\E p \in Publishers, ch \in Channels : PublishSend(p, ch)) /\ EventsAside
    \/ (\E p \in Publishers : PublishUnlock(p)) /\ EventsAside
    \/ (\E ch \in Channels : Receive(ch)) /\ EventsAside

SpecRace == InitEvents /\ [][NextRace]_vars

-----------------------------------------------------------------------------
(* Handler.SubscribeToEvents: one call, its ticker goroutine, its client *)

\* the welcome message, as the periodic health check would be worded
WelcomeMessage_Periodic == "Health check"

\* the Message of the health check sent right after subscribing
WelcomeMessage == "Connected to events stream"

\* EventResponse_HealthCheck
HealthCheck(message) == [Kind |-> "HealthCheck", Message |-> message, NoteId |-> 0]

\* EventResponse_NoteCreated
NoteCreated(note) == [Kind |-> "NoteCreated", Message |-> "", NoteId |-> note]

\* the error of a stream.Send that failed
SendErr == StatusErrorf("Unavailable", "transport is closing")

\* stream.Send succeeds or fails; a stream whose handler has returned takes
\* nothing more
SendOutcomes == IF stream.PC \in {"defer", "done"} THEN {FALSE} ELSE BOOLEAN

\* the event service does not move
StreamAside ==
    UNCHANGED <<pluginVars, notesVars, reply, rpc, hasEvents, lifeVars>>

\* provider, ok := h.noteService.(eventServiceProvider) fails: the call ends
\* with Internal, nothing sent and nothing subscribed
StreamReject ==
    /\ stream.PC = "idle"
    /\ ~hasEvents
    /\ stream' = [stream EXCEPT !.PC = "done", !.Ctx = "done",
                     !.Err = StatusErrorf("Internal", "event service not available")]
    /\ UNCHANGED eventVars
    /\ StreamAside

\* eventCh := eventService.Subscribe(), with the Unsubscribe deferred
StreamSubscribe ==
    /\ stream.PC = "idle"
    /\ hasEvents
    /\ \E ch \in Channels :
          /\ Subscribe(ch)
          /\ stream' = [stream EXCEPT !.PC = "welcome", !.Ch = ch]
    /\ StreamAside

\* the welcome health check; on success the ticker goroutine is started
SendWelcome ==
    /\ stream.PC = "welcome"
    /\ \E ok \in SendOutcomes :
          stream' = IF ok
                    THEN [stream EXCEPT !.PC = "loop", !.Tick = "wait",
                             !.Sent = Append(@, HealthCheck(WelcomeMessage))]
                    ELSE [stream EXCEPT !.PC = "defer", !.Err = SendErr]
    /\ UNCHANGED eventVars
    /\ StreamAside

\* the goroutine, case <-ticker.C: a periodic health check; a failed Send
\* goes to healthCheckErrChan and ends the goroutine
TickSend ==
    /\ stream.Tick = "wait"
    /\ Len(stream.Sent) < MaxSent
    /\ \E ok \in SendOutcomes :
          stream' = IF ok
                    THEN [stream EXCEPT !.Sent = Append(@, HealthCheck("Health check"))]
                    ELSE [stream EXCEPT !.Tick = "stopped", !.ErrCh = SendErr]
    /\ UNCHANGED eventVars
    /\ StreamAside

\* the goroutine, case <-ctx.Done()
TickStop ==
    /\ stream.Tick = "wait"
    /\ stream.Ctx = "done"
    /\ stream' = [stream EXCEPT !.Tick = "stopped"]
    /\ UNCHANGED eventVars
    /\ StreamAside

\* the client disconnects: the context of the stream is cancelled
Disconnect ==
    /\ stream.PC \notin {"idle", "done"}
    /\ stream.Ctx = "live"
    /\ stream' = [stream EXCEPT !.Ctx = "done"]
    /\ UNCHANGED eventVars
    /\ StreamAside

\* the loop, case note := <-eventCh
LoopReceive ==
    /\ stream.PC = "loop"
    /\ Receive(stream.Ch)
    /\ stream' = [stream EXCEPT !.PC = "event", !.Note = Head(chans[stream.Ch].Buf)]
    /\ StreamAside

\* the loop: the NoteCreated event of the note received
SendEvent ==
    /\ stream.PC = "event"
    /\ Len(stream.Sent) < MaxSent
    /\ \E ok \in SendOutcomes :
          stream' = IF ok
                    THEN [stream EXCEPT !.PC = "loop",
                             !.Sent = Append(@, NoteCreated(stream.Note))]
                    ELSE [stream EXCEPT !.PC = "defer", !.Err = SendErr]
    /\ UNCHANGED eventVars
    /\ StreamAside

\* the loop, case err := <-healthCheckErrChan
LoopErr ==
    /\ stream.PC = "loop"
    /\ stream.ErrCh # Nil
    /\ stream' = [stream EXCEPT !.PC = "defer", !.Err = stream.ErrCh, !.ErrCh = Nil]
    /\ UNCHANGED eventVars
    /\ StreamAside

\* the loop, case <-ctx.Done(): return nil
LoopDone ==
    /\ stream.PC = "loop"
    /\ stream.Ctx = "done"
    /\ stream' = [stream EXCEPT !.PC = "defer", !.Err = Nil]
    /\ UNCHANGED eventVars
    /\ StreamAside

\* the return: the deferred Unsubscribe, and the stream's context ends
StreamReturn ==
    /\ stream.PC = "defer"
    /\ Unsubscribe(stream.Ch)
    /\ stream' = [stream EXCEPT !.PC = "done", !.Ctx = "done"]
    /\ StreamAside

\* a handler over a service that may or may not offer an event service
InitStream ==
    /\ request = <<>>
    /\ faults = {}
    /\ formatFault = FALSE
    /\ fv = Nil
    /\ built = Nil
    /\ IdleAll
    /\ hasEvents \in BOOLEAN

\* one SubscribeToEvents call while notes are published
NextStream ==
    \/ StreamReject
    \/ StreamSubscribe
    \/ SendWelcome
    \/ TickSend
    \/ TickStop
    \/ Disconnect
    \/ LoopReceive
    \/ SendEvent
    \/ LoopErr
    \/ LoopDone
    \/ StreamReturn
    \/ RacePublish("p1") /\ EventsAside
    \/ (\E ch \in Channels : PublishSend("p1", ch)) /\ EventsAside
    \/ PublishUnlock("p1") /\ EventsAside

SpecStream == InitStream /\ [][NextStream]_vars

\* Server.Initialize: the handler is built over NewNoteService(noteRepo)
InitWired == InitNotes

\* the wired server: the note service at work and a SubscribeToEvents call
NextWired ==
    \/ NextNotes
    \/ StreamReject

\* the handlers of the wired server run on to their return
SpecWired == InitWired /\ [][NextWired]_vars /\ WF_vars(NextWired)

-----------------------------------------------------------------------------
(* Handler.Chat: the receiving goroutine, the notifying one, the waiter *)

\* errChan := make(chan error, 2)
ErrChanCap == 2

\* the texts a client sends: plain, blank, empty
ChatTexts == {<<"h", "i">>, <<" ", "\t">>, <<>>}

\* the one-of contents of a client's message
ChatContents ==
    {[Kind |-> "text", Text |-> t] : t \in ChatTexts}
    \cup {[Kind |-> "error", Text |-> <<>>], [Kind |-> "none", Text |-> <<>>]}

\* fmt.Sprintf("client-msg-%d", i)
ClientID(i) == <<"client-msg", i>>

\* fmt.Sprintf("notification-%d", notificationCounter)
NotificationID(i) == <<"notification", i>>

\* a ChatMessage with a ChatTextMessage
ChatText(cid, text) == [Cid |-> cid, Kind |-> "text", Code |-> "", Text |-> text]

\* a ChatMessage with a ChatError
ChatError(cid, code) == [Cid |-> cid, Kind |-> "error", Code |-> code, Text |-> <<>>]

\* what arrives of a message whose Send ran while another Send ran on the
\* same stream: gRPC leaves it undefined
Garbled == [Cid |-> <<>>, Kind |-> "garbled", Code |-> "", Text |-> <<>>]

\* fmt.Sprintf("Acknowledged: %s", text)
Acknowledged(text) ==
    <<"A","c","k","n","o","w","l","e","d","g","e","d",":"," ">> \o text

\* the reply of the receiving goroutine to a message that gets one
ChatReply(msg) ==
    IF msg.Kind = "text"
    THEN IF TrimSpace(msg.Text) = <<>>
         THEN ChatError(msg.Cid, "VALIDATION_ERROR")
         ELSE ChatText(msg.Cid, Acknowledged(msg.Text))
    ELSE ChatError(msg.Cid, "INVALID_MESSAGE")

\* fmt.Sprintf("Server notification #%d", notificationCounter)
Notification(i) ==
    ChatText(NotificationID(i),
             <<"S","e","r","v","e","r"," ","n","o","t","i","f","i","c","a",
               "t","i","o","n"," ","#">> \o <<<<"1", "2", "3", "4">>[i]>>)

\* errChan <- err by goroutine g, which then returns; on a full channel the
\* goroutine stays blocked in the send
PutErr(c, g, err) ==
    IF Len(c.ErrChan) < ErrChanCap
    THEN [c EXCEPT !.ErrChan = Append(@, err), ![g] = "exit"]
    ELSE [c EXCEPT ![g] = "blocked"]

\* goroutine g enters stream.Send(msg): a Send that runs while another one
\* runs overlaps it
SendBegin(c, g, msg) ==
    [c EXCEPT ![g] = "sending",
              !.Sending = [h \in DOMAIN @ \cup {g} |-> IF h = g THEN msg ELSE @[h]],
              !.Overlap = IF DOMAIN c.Sending # {} THEN DOMAIN c.Sending \cup {g}
                          ELSE @]

\* what a Send of goroutine g can put on the wire
Wire(c, g) ==
    IF g \in c.Overlap THEN {c.Sending[g], Garbled} ELSE {c.Sending[g]}

\* goroutine g is out of stream.Send, wire on the stream
SendEnd(c, g, wire) ==
    [c EXCEPT !.Out = Append(@, wire),
              !.Sending = [h \in DOMAIN @ \ {g} |-> @[h]],
              !.Overlap = @ \ {g}]

\* stream.Send failed in goroutine g
SendFailed(c, g) ==
    [c EXCEPT !.Sending = [h \in DOMAIN @ \ {g} |-> @[h]],
              !.Overlap = @ \ {g}]

\* stream.Send can fail at any time and fails once Chat has returned
ChatSendOutcomes == IF chat.PC = "returned" THEN {FALSE} ELSE BOOLEAN

\* the rest of the state while Chat runs
ChatAside ==
    UNCHANGED <<pluginVars, notesVars, reply, rpc, eventVars, streamVars,
                calls, srv>>

\* Chat starts its three goroutines and waits on errChan
ChatCall ==
    /\ chat.PC = "idle"
    /\ chat' = [chat EXCEPT !.PC = "wait", !.R = "recv", !.N = "select",
                            !.W = "wait"]
    /\ ChatAside

\* the client sends a message
ClientSend ==
    /\ chat.PC # "idle"
    /\ chat.Ctx = "live"
    /\ ~chat.Closed
    /\ chat.Asked < MaxChat
    /\ \E content \in ChatContents :
          chat' = [chat EXCEPT
                      !.Asked = @ + 1,
                      !.Inbox = Append(@, [Cid |-> ClientID(chat.Asked + 1),
                                           Kind |-> content.Kind,
                                           Text |-> content.Text])]
    /\ ChatAside

\* the client half-closes the stream: CloseSend
ClientClose ==
    /\ chat.PC # "idle"
    /\ chat.Ctx = "live"
    /\ ~chat.Closed
    /\ chat' = [chat EXCEPT !.Closed = TRUE]
    /\ ChatAside

\* the client cancels or disconnects: the stream's context is done
ChatDisconnect ==
    /\ chat.PC = "wait"
    /\ chat.Ctx = "live"
    /\ chat' = [chat EXCEPT !.Ctx = "done"]
    /\ ChatAside

\* stream.Recv returns a message
RecvMsg ==
    /\ chat.R = "recv"
    /\ chat.Ctx = "live"
    /\ chat.Inbox # <<>>
    /\ chat' = [chat EXCEPT !.R = "got", !.Msg = Head(chat.Inbox),
                            !.Inbox = Tail(@),
                            !.Recvd = Append(@, Head(chat.Inbox))]
    /\ ChatAside

\* stream.Recv returns io.EOF: the goroutine returns
RecvEOF ==
    /\ chat.R = "recv"
    /\ chat.Ctx = "live"
    /\ chat.Inbox = <<>>
    /\ chat.Closed
    /\ chat' = [chat EXCEPT !.R = "exit", !.Eof = TRUE]
    /\ ChatAside

\* stream.Recv returns another error: the context of the stream is done
RecvErr ==
    /\ chat.R = "recv"
    /\ chat.Ctx = "done"
    /\ chat' = PutErr(chat, "R", "error receiving message")
    /\ ChatAside

\* the switch on the content: a text or no content leads to a Send, an
\* error of the client to the check of the context
Handle ==
    /\ chat.R = "got"
    /\ chat' = IF chat.Msg.Kind = "error"
               THEN [chat EXCEPT !.R = "check"]
               ELSE SendBegin([chat EXCEPT
                                  !.Cont = chat.Msg.Kind = "text"
                                           /\ TrimSpace(chat.Msg.Text) = <<>>],
                              "R", ChatReply(chat.Msg))
    /\ ChatAside

\* the Send of the reply returns: after a validation error the loop
\* continues at once, otherwise it checks the context
ReplySent ==
    /\ chat.R = "sending"
    /\ \E ok \in ChatSendOutcomes :
          IF ok
          THEN \E wire \in Wire(chat, "R") :
                  chat' = [SendEnd(chat, "R", wire) EXCEPT
                              !.R = IF chat.Cont THEN "recv" ELSE "check"]
          ELSE chat' = PutErr(SendFailed(chat, "R"), "R", "error sending reply")
    /\ ChatAside

\* select { case <-ctx.Done(): return; default: }
CheckCtx ==
    /\ chat.R = "check"
    /\ chat' = [chat EXCEPT !.R = IF chat.Ctx = "done" THEN "exit" ELSE "recv"]
    /\ ChatAside

\* case <-ticker.C: the next notification is handed to Send
NotifyTick ==
    /\ chat.N = "select"
    /\ chat.Counter < MaxNotif
    /\ chat' = SendBegin([chat EXCEPT !.Counter = @ + 1], "N",
                         Notification(chat.Counter + 1))
    /\ ChatAside

\* the Send of the notification returns
NotifySent ==
    /\ chat.N = "sending"
    /\ \E ok \in ChatSendOutcomes :
          IF ok
          THEN \E wire \in Wire(chat, "N") :
                  chat' = [SendEnd(chat, "N", wire) EXCEPT !.N = "select"]
          ELSE chat' = PutErr(SendFailed(chat, "N"), "N",
                              "error sending notification")
    /\ ChatAside

\* the notifying goroutine, case <-ctx.Done()
NotifyStop ==
    /\ chat.N = "select"
    /\ chat.Ctx = "done"
    /\ chat' = [chat EXCEPT !.N = "exit"]
    /\ ChatAside

\* wg.Wait() returns once both goroutines have; close(errChan)
WaitClose ==
    /\ chat.W = "wait"
    /\ chat.R = "exit"
    /\ chat.N = "exit"
    /\ chat' = [chat EXCEPT !.W = "closed", !.ErrClosed = TRUE]
    /\ ChatAside

\* err, ok := <-errChan: the first error, or nil from the closed channel;
\* the return of the handler ends the stream and its context
ChatReturn ==
    /\ chat.PC = "wait"
    /\ \/ /\ chat.ErrChan # <<>>
          /\ chat' = [chat EXCEPT !.PC = "returned", !.Ctx = "done",
                                  !.Result = Some(Head(chat.ErrChan)),
                                  !.ErrChan = Tail(@)]
       \/ /\ chat.ErrChan = <<>>
          /\ chat.ErrClosed
          /\ chat' = [chat EXCEPT !.PC = "returned", !.Ctx = "done",
                                  !.Result = Nil]
    /\ ChatAside

\* the steps of the server's goroutines
ChatServer ==
    \/ ChatCall
    \/ RecvMsg
    \/ RecvEOF
    \/ RecvErr
    \/ Handle
    \/ ReplySent
    \/ CheckCtx
    \/ NotifyTick
    \/ NotifySent
    \/ NotifyStop
    \/ WaitClose
    \/ ChatReturn

\* the steps of the client
ChatClient ==
    \/ ClientSend
    \/ ClientClose
    \/ ChatDisconnect

InitChat ==
    /\ request = <<>>
    /\ faults = {}
    /\ formatFault = FALSE
    /\ fv = Nil
    /\ built = Nil
    /\ InitIdle

NextChat == ChatServer \/ ChatClient

\* the goroutines of the server keep running; the client does as it likes
SpecChat == InitChat /\ [][NextChat]_vars /\ WF_vars(ChatServer)

-----------------------------------------------------------------------------
(* Server: Start, the gateway, and Shutdown *)

\* a Shutdown that answers nil whatever its select chose
ShutdownResult_Nil(chosen) == "nil"

\* what Shutdown returns after its select: nil after <-stopped, ctx.Err()
\* after <-ctx.Done()
ShutdownResult(chosen) ==
    IF chosen = "stopped" THEN "nil" ELSE "context deadline exceeded"

\* the select of Shutdown waits: the first of close(stopped) and the
\* deadline decides its case
Decided(s, case) ==
    IF s.PC = "select" /\ s.Chosen = "" THEN case ELSE s.Chosen

\* the rest of the state while the server lives
SrvAside ==
    UNCHANGED <<pluginVars, notesVars, reply, rpc, eventVars, streamVars,
                calls, chat>>

\* Start: Serve and gateway.Setup run in goroutines of their own
Start ==
    /\ srv.PC = "ready"
    /\ srv' = [srv EXCEPT !.PC = "started", !.Grpc = "serving",
                          !.Setup = "running"]
    /\ SrvAside

\* gateway.Setup reaches http.ListenAndServe, which serves
GatewayServes ==
    /\ srv.Setup = "running"
    /\ srv.Http = "off"
    /\ srv' = [srv EXCEPT !.Http = "listening"]
    /\ SrvAside

\* gateway.Setup returns an error: the registration or the listening failed
GatewayFails ==
    /\ srv.Setup = "running"
    /\ srv.Http = "off"
    /\ srv' = [srv EXCEPT !.Setup = "returned", !.Http = "failed"]
    /\ SrvAside

\* the HTTP server of the gateway accepts a request
HttpRequest ==
    /\ srv.Http = "listening"
    /\ srv.Served < MaxHttp
    /\ srv' = [srv EXCEPT !.Served = @ + 1]
    /\ SrvAside

\* the gRPC server takes an RPC
RpcBegins ==
    /\ srv.Grpc = "serving"
    /\ srv.Active < MaxActive
    /\ srv' = [srv EXCEPT !.Active = @ + 1]
    /\ SrvAside

\* an RPC under way ends
RpcEnds ==
    /\ srv.Active > 0
    /\ srv' = [srv EXCEPT !.Active = @ - 1]
    /\ SrvAside

\* Shutdown: s.Cancel()
ShutdownCancel ==
    /\ srv.PC = "started"
    /\ srv' = [srv EXCEPT !.PC = "cancelled", !.Ctx = "done"]
    /\ SrvAside

\* Shutdown: s.GatewayCancel()
ShutdownGatewayCancel ==
    /\ srv.PC = "cancelled"
    /\ srv' = [srv EXCEPT !.PC = "gwcancelled", !.GwCtx = "done"]
    /\ SrvAside

\* Shutdown: context.WithTimeout, the goroutine of GracefulStop, the select
ShutdownWait ==
    /\ srv.PC = "gwcancelled"
    /\ srv' = [srv EXCEPT !.PC = "select", !.Left = srv.Timeout,
                          !.Go = "running"]
    /\ SrvAside

\* GracefulStop begins: the gRPC server takes no new RPC
GracefulStopBegins ==
    /\ srv.Go = "running"
    /\ srv.Grpc = "serving"
    /\ srv' = [srv EXCEPT !.Grpc = "draining"]
    /\ SrvAside

\* GracefulStop returns, no RPC being under way, and close(stopped)
GracefulStopReturns ==
    /\ srv.Go = "running"
    /\ srv.Grpc \in {"draining", "stopped"}
    /\ srv.Active = 0
    /\ srv' = [srv EXCEPT !.Go = "done", !.Grpc = "stopped",
                          !.Stopped = TRUE,
                          !.Within = srv.Left > 0,
                          !.Chosen = Decided(srv, "stopped")]
    /\ SrvAside

\* a second of the shutdown timeout passes; after the last one ctx is done
SecondPasses ==
    /\ srv.PC = "select"
    /\ srv.Left > 0
    /\ srv' = [srv EXCEPT !.Left = @ - 1,
                          !.Chosen = IF srv.Left = 1
                                     THEN Decided(srv, "deadline") ELSE @]
    /\ SrvAside

\* Shutdown returns: after <-ctx.Done() it first calls Stop, which ends
\* every RPC
ShutdownReturns ==
    /\ srv.PC = "select"
    /\ srv.Chosen # ""
    /\ srv' = IF srv.Chosen = "stopped"
              THEN [srv EXCEPT !.PC = "returned",
                               !.Result = ShutdownResult(srv.Chosen)]
              ELSE [srv EXCEPT !.PC = "returned", !.Forced = TRUE,
                               !.Grpc = "stopped", !.Active = 0,
                               !.Result = ShutdownResult(srv.Chosen)]
    /\ SrvAside

\* NewServer and Initialize have returned; the timeout is the configured one
InitLife ==
    /\ request = <<>>
    /\ faults = {}
    /\ formatFault = FALSE
    /\ fv = Nil
    /\ built = Nil
    /\ fileIdx = 1
    /\ genFiles = <<>>
    /\ pluginErr = "running"
    /\ stderr = 0
    /\ call = NoCall
    /\ run = 1
    /\ firstFiles = <<>>
    /\ notes = NoNotes
    /\ now = 1
    /\ ret = NoRet
    /\ repoLog = <<>>
    /\ uuids = {}
    /\ reply = NoReply
    /\ rpc = NoRpc
    /\ EventsIdle
    /\ stream = NoStream
    /\ calls = NoCalls
    /\ chat = NoChat
    /\ hasEvents = FALSE
    /\ typeName = Nil
    /\ receivers = <<>>
    /\ \E t \in 1..MaxTimeout :
          srv = [NoSrv EXCEPT !.PC = "ready", !.Timeout = t]

\* the steps of Shutdown, of its goroutine and of its timer
ShutdownSteps ==
    \/ ShutdownGatewayCancel
    \/ ShutdownWait
    \/ GracefulStopBegins
    \/ GracefulStopReturns
    \/ SecondPasses
    \/ ShutdownReturns

NextLife ==
    \/ Start
    \/ GatewayServes
    \/ GatewayFails
    \/ HttpRequest
    \/ RpcBegins
    \/ RpcEnds
    \/ ShutdownCancel
    \/ ShutdownSteps

\* Shutdown, once called, runs on and its timer runs down; clients and the
\* signal do as they like
SpecLife == InitLife /\ [][NextLife]_vars /\ WF_vars(ShutdownSteps)

-----------------------------------------------------------------------------
(* getReceiverName applied to a type name *)

\* the names of TestGetReceiverName
TestedNames == {CreateNoteRequestName, MUser, MProduct, MessageName, <<>>}

NameTails == SeqsOf({"a", "p", "P"}, 0, MaxName - 1)

\* Go type names: the tested ones and the short ones of every first letter
TypeNames ==
    TestedNames \cup {<<c>> \o t : c \in Upper \cup Lower, t \in NameTails}

\* the calls of TestGetReceiverName, each name asked for more than once
MaxAsked == 2

InitReceiver ==
    /\ request = <<>>
    /\ faults = {}
    /\ formatFault = FALSE
    /\ fileIdx = 1
    /\ genFiles = <<>>
    /\ pluginErr = "running"
    /\ stderr = 0
    /\ call = NoCall
    /\ fv = Nil
    /\ built = Nil
    /\ run = 1
    /\ firstFiles = <<>>
    /\ notes = NoNotes
    /\ now = 1
    /\ ret = NoRet
    /\ repoLog = <<>>
    /\ uuids = {}
    /\ ServerIdle
    /\ hasEvents = FALSE
    /\ typeName \in {Some(n) : n \in TypeNames}
    /\ receivers = <<>>

AskReceiver ==
    /\ typeName # Nil
    /\ Len(receivers) < MaxAsked
    /\ receivers' = Append(receivers, getReceiverName(typeName[1]))
    /\ UNCHANGED <<request, faults, formatFault, fileIdx, genFiles, pluginErr,
                   stderr, call, fv, built, run, firstFiles, notes, now, ret,
                   repoLog, uuids, typeName, serverVars>>

NextReceiver == AskReceiver

SpecReceiver == InitReceiver /\ [][NextReceiver]_vars

-----------------------------------------------------------------------------
(* The plugin run twice on the same descriptors *)

\* protoc starts the plugin again on the request of the first run
Rerun ==
    /\ run = 1
    /\ pluginErr = "nil"
    /\ run' = 2
    /\ firstFiles' = genFiles
    /\ fileIdx' = 1
    /\ genFiles' = <<>>
    /\ pluginErr' = "running"
    /\ stderr' = 0
    /\ UNCHANGED <<request, faults, formatFault, call, fv, built, notes, now,
                   ret, repoLog, uuids,
                   typeName, receivers, serverVars>>

NextTwice == SkipFile \/ GenerateFile \/ MainReturn \/ Rerun

SpecTwice == Init /\ [][NextTwice]_vars

-----------------------------------------------------------------------------
(* The plugin run with failing templates and a failing formatter *)

InitFault ==
    /\ request \in PairRequests \cup StructRequests
    /\ faults \in {{}} \cup {{t} : t \in AllTemplates}
    /\ formatFault \in BOOLEAN
    /\ InitIdle
    /\ fv = Nil
    /\ built = Nil

SpecFault == InitFault /\ [][Next]_vars

-----------------------------------------------------------------------------
(* The check builder called on its own, as its unit test calls it *)

InitChecks ==
    /\ request = <<>>
    /\ faults = {}
    /\ formatFault = FALSE
    /\ InitIdle
    /\ fv \in {Some(x) : x \in FieldValidations \cup PatternValidations}
    /\ built = Nil

BuildChecks ==
    /\ fv # Nil
    /\ built = Nil
    /\ built' = Some(buildValidationChecks(fv[1], "m", "fmt.Errorf",
                                           "regexp.MustCompile"))
    /\ UNCHANGED <<request, faults, formatFault, fileIdx, genFiles, pluginErr,
                   stderr, call, fv,
                   run, firstFiles, notes, now, ret, repoLog,
                   uuids, typeName, receivers, serverVars>>

NextChecks == BuildChecks

SpecChecks == InitChecks /\ [][NextChecks]_vars

-----------------------------------------------------------------------------
(* What the schema asks for, read off the descriptors *)

\* the constraints a field's rules populate, in the order minLen, maxLen,
\* pattern, email, minItems, maxItems
StringConstraints(s) ==
    (IF s.MinLen # Nil THEN <<[Type |-> "minLen", N |-> s.MinLen[1]]>> ELSE <<>>)
    \o (IF s.MaxLen # Nil THEN <<[Type |-> "maxLen", N |-> s.MaxLen[1]]>> ELSE <<>>)
    \o (IF s.Pattern # Nil /\ s.Pattern # Some(<<>>)
        THEN <<[Type |-> "pattern", N |-> 0]>> ELSE <<>>)
    \o (IF s.Email THEN <<[Type |-> "email", N |-> 0]>> ELSE <<>>)

RepeatedConstraints(r) ==
    (IF r.MinItems # Nil THEN <<[Type |-> "minItems", N |-> r.MinItems[1]]>> ELSE <<>>)
    \o (IF r.MaxItems # Nil THEN <<[Type |-> "maxItems", N |-> r.MaxItems[1]]>> ELSE <<>>)

RuleConstraints(field) ==
    IF field.Rules = Nil THEN <<>>
    ELSE (IF field.Rules[1].String_ # Nil
          THEN StringConstraints(field.Rules[1].String_[1]) ELSE <<>>)
         \o (IF field.Rules[1].Repeated # Nil
             THEN RepeatedConstraints(field.Rules[1].Repeated[1]) ELSE <<>>)

\* the constraints of a message, field after field, each with its field
MessageConstraints(msg) ==
    Flatten([i \in 1..Len(msg.Fields) |->
                [j \in 1..Len(RuleConstraints(msg.Fields[i])) |->
                    [Index |-> i, Field |-> msg.Fields[i],
                     Type |-> RuleConstraints(msg.Fields[i])[j].Type,
                     N |-> RuleConstraints(msg.Fields[i])[j].N]]])

\* whether the value x of the field breaks the constraint c
Breaks(c, x) ==
    CASE c.Type \in {"minLen", "minItems"} -> Len(x) < c.N
      [] c.Type \in {"maxLen", "maxItems"} -> Len(x) > c.N
      [] c.Type = "pattern" ->
             ~MatchString(c.Field.Rules[1].String_[1].Pattern[1], x)
      [] c.Type = "email" -> ~isValidEmail(x)

\* the documented error text of the constraint c
ErrorText(c) ==
    CASE c.Type = "minLen" ->
           "field " \o c.Field.GoName \o " must be at least "
               \o ToString(c.N) \o " characters"
      [] c.Type = "maxLen" ->
           "field " \o c.Field.GoName \o " must be at most "
               \o ToString(c.N) \o " characters"
      [] c.Type = "pattern" ->
           "field " \o c.Field.GoName \o " does not match required pattern"
      [] c.Type = "email" ->
           "field " \o c.Field.GoName \o " must be a valid email address"
      [] c.Type = "minItems" ->
           "field " \o c.Field.GoName \o " must have at least "
               \o ToString(c.N) \o " items"
      [] c.Type = "maxItems" ->
           "field " \o c.Field.GoName \o " must have at most "
               \o ToString(c.N) \o " items"

\* the positions of the constraints of msg that val breaks
BrokenAt(msg, val) ==
    {k \in 1..Len(MessageConstraints(msg)) :
        Breaks(MessageConstraints(msg)[k],
               val[MessageConstraints(msg)[k].Index])}

Min(S) == CHOOSE n \in S : \A m \in S : n <= m

\* nil, or the error text of the first broken constraint
FirstBroken(msg, val) ==
    IF BrokenAt(msg, val) = {} THEN Nil
    ELSE Some(ErrorText(MessageConstraints(msg)[Min(BrokenAt(msg, val))]))

Called == call.File # ""

\* the generated file and the message descriptor of the last call
CalledFile == genFiles[CHOOSE i \in 1..Len(genFiles) : genFiles[i].Name = call.File]
CalledMessage == MessageOf(FileOf(CalledFile), call.Message)

-----------------------------------------------------------------------------
(* Claims *)

\* C1: a generated Validate() returns the error of the first broken
\* constraint, taking the fields in declaration order and the constraints
\* of a field in the order minLen, maxLen, pattern, email, minItems,
\* maxItems, and returns nil only if no constraint is broken.
C1_FirstFailingCheckWins ==
    Called => call.Result = FirstBroken(CalledMessage, call.Value)

\* C1 witness: a call whose value breaks constraints of both fields and
\* two constraints of its first field, answered with a single error.
C1_Witness ==
    /\ Called
    /\ call.Result # Nil
    /\ LET cs == MessageConstraints(CalledMessage)
           broken == BrokenAt(CalledMessage, call.Value)
       IN  /\ \E a, b \in broken : cs[a].Index # cs[b].Index
           /\ \E a, b \in broken : a # b /\ cs[a].Index = 1 /\ cs[b].Index = 1

\* the populated constraints of a FieldValidation, in the fixed order
ExpectedTypes(v) ==
    (IF v.MinLen # Nil THEN <<"minLen">> ELSE <<>>)
    \o (IF v.MaxLen # Nil THEN <<"maxLen">> ELSE <<>>)
    \o (IF v.Pattern # <<>> THEN <<"pattern">> ELSE <<>>)
    \o (IF v.Email THEN <<"email">> ELSE <<>>)
    \o (IF v.MinItems # Nil THEN <<"minItems">> ELSE <<>>)
    \o (IF v.MaxItems # Nil THEN <<"maxItems">> ELSE <<>>)

\* C2: buildValidationChecks returns exactly one check per populated
\* constraint and none for the others, in the order minLen, maxLen,
\* pattern, email, minItems, maxItems, each with rendered code.
C2_OneCheckPerConstraint ==
    built # Nil =>
        /\ [i \in 1..Len(built[1]) |-> built[1][i].Type] = ExpectedTypes(fv[1])
        /\ \A i \in 1..Len(built[1]) : built[1][i].Code.stmt # ""

\* C2 witness: all six constraints populated, six checks returned.
C2_Witness ==
    /\ built # Nil
    /\ Len(built[1]) = 6
    /\ fv[1].MinLen # Nil /\ fv[1].MaxLen # Nil /\ fv[1].Pattern # <<>>
    /\ fv[1].Email /\ fv[1].MinItems # Nil /\ fv[1].MaxItems # Nil

\* the messages declared in a file: the top-level ones and, after each,
\* the messages declared inside it
RECURSIVE AllMessages(_)
AllMessages(msgs) ==
    IF msgs = <<>> THEN <<>>
    ELSE <<Head(msgs)>> \o AllMessages(Head(msgs).Messages)
         \o AllMessages(Tail(msgs))

\* the generated files made from the file descriptor f
OutputsOf(f) == {i \in 1..Len(genFiles) : genFiles[i].Source = f.Path}

\* the Validate methods for the message called name in the outputs of f
MethodsOf(f, name) ==
    UNION {{<<i, j>> : j \in {n \in 1..Len(genFiles[i].Content) :
                                 /\ genFiles[i].Content[n].kind = "method"
                                 /\ genFiles[i].Content[n].MessageName = name}} :
              i \in OutputsOf(f)}

\* C3: for every non-map-entry message declared in a file marked for
\* generation, top-level or nested, the output holds exactly one Validate
\* method, and for a map-entry message it holds none.
C3_EveryMessageOneMethod ==
    pluginErr = "nil" =>
        \A k \in 1..Len(request) :
            request[k].Generate =>
                \A m \in Range(AllMessages(request[k].Messages)) :
                    Cardinality(MethodsOf(request[k], m.GoName))
                        = IF m.IsMapEntry THEN 0 ELSE 1

\* C4: a message none of whose fields yields a check, top-level or nested,
\* still gets a Validate method, and that method returns nil for every
\* value of the message.
C4_NoChecksStillValidates ==
    pluginErr = "nil" =>
        \A k \in 1..Len(request) :
            request[k].Generate =>
                \A m \in Range(AllMessages(request[k].Messages)) :
                    (~m.IsMapEntry /\ MessageConstraints(m) = <<>>) =>
                        /\ MethodsOf(request[k], m.GoName) # {}
                        /\ \A ij \in MethodsOf(request[k], m.GoName) :
                              \A val \in MessageValues(m) :
                                 Validate(genFiles[ij[1]].Content[ij[2]],
                                          m, val) = Nil

\* C4 witness: the method of a top-level message without constraints was
\* called on an empty string and returned nil.
C4_Witness ==
    /\ Called
    /\ MessageConstraints(CalledMessage) = <<>>
    /\ call.Value = <<<<>>>>
    /\ call.Result = Nil

\* the templates the generation of a file executes
UsedTemplates(fileInfo) ==
    {fileHeaderTmpl}
    \cup (IF fileInfo.Messages # <<>> THEN {validateMethodTmpl} ELSE {})
    \cup (IF fileInfo.NeedsEmail THEN {isValidEmailTmpl} ELSE {})
    \cup UNION {UNION {TemplatesOf(fileInfo.Messages[i].Fields[j]) :
                           j \in 1..Len(fileInfo.Messages[i].Fields)} :
                  i \in 1..Len(fileInfo.Messages)}

\* the number of populated constraints of a MessageInfo
PopulatedCount(msgInfo) ==
    SumSeq([j \in 1..Len(msgInfo.Fields) |->
               Len(ExpectedTypes(msgInfo.Fields[j]))])

\* an output with a method for every extracted message, a check for every
\* populated constraint and the email helper where one is needed
Complete(g) ==
    /\ \A i \in 1..Len(g.Info.Messages) :
          \E j \in 1..Len(g.Content) :
             /\ g.Content[j].kind = "method"
             /\ g.Content[j].MessageName = g.Info.Messages[i].GoName
             /\ Len(g.Content[j].Body) = PopulatedCount(g.Info.Messages[i])
    /\ g.Info.NeedsEmail =>
          \E j \in 1..Len(g.Content) : g.Content[j].kind = "isValidEmail"

\* C5: when a template fails while a file is generated the generation is
\* aborted as an error: the plugin does not return nil, and no output
\* lacking a method, a check or the email helper is written.
C5_TemplateFailureAborts ==
    \A i \in 1..Len(genFiles) :
        /\ (UsedTemplates(genFiles[i].Info) \cap faults # {}) =>
              (~genFiles[i].Written /\ pluginErr # "nil")
        /\ genFiles[i].Written => Complete(genFiles[i])

\* C6: when formatting the rendered text fails the unformatted text is
\* still written and the failure is reported: the plugin does not return
\* nil.
C6_FormatFailureReported ==
    \A i \in 1..Len(genFiles) :
        (fileHeaderTmpl \notin faults /\ ~genFiles[i].Formatted) =>
            /\ genFiles[i].Written
            /\ genFiles[i].Content # <<>>
            /\ pluginErr # "nil"

\* C7: every FieldValidation kept in a MessageInfo has at least one of
\* its six constraints populated.
C7_KeptFieldHasConstraint ==
    \A i \in 1..Len(genFiles) :
        \A k \in 1..Len(genFiles[i].Info.Messages) :
            \A j \in 1..Len(genFiles[i].Info.Messages[k].Fields) :
                ExpectedTypes(genFiles[i].Info.Messages[k].Fields[j]) # <<>>

\* a string group on a field that is not of kind string, or a repeated
\* group on a field that is not repeated
Misapplied(field) ==
    /\ field.Rules # Nil
    /\ \/ field.Rules[1].String_ # Nil /\ field.Kind # "string"
       \/ field.Rules[1].Repeated # Nil /\ ~field.IsList

\* C8: a rule group that does not apply to the kind of its field adds no
\* check to the generated method, and the file is still generated.
C8_MisappliedGroupIgnored ==
    \A i \in 1..Len(genFiles) :
        /\ genFiles[i].Written
        /\ \A j \in 1..Len(genFiles[i].Content) :
              genFiles[i].Content[j].kind = "method" =>
                 LET msg == MessageOf(FileOf(genFiles[i]),
                                      genFiles[i].Content[j].MessageName)
                 IN  \A f \in Range(msg.Fields) :
                        Misapplied(f) =>
                           \A b \in Range(genFiles[i].Content[j].Body) :
                              b.FieldName # f.GoName

\* C9 as amended: a file marked for generation that declares a top-level
\* message that is not a map entry yields exactly one output, named with
\* its path stem plus .pb.validate.go; every other file yields none.
C9_OneOutputPerFileWithMessages ==
    pluginErr = "nil" =>
        \A k \in 1..Len(request) :
            IF /\ request[k].Generate
               /\ \E m \in Range(request[k].Messages) : ~m.IsMapEntry
            THEN /\ Cardinality(OutputsOf(request[k])) = 1
                 /\ \A i \in OutputsOf(request[k]) :
                       genFiles[i].Name
                           = request[k].GeneratedFilenamePrefix
                                 \o ".pb.validate.go"
            ELSE OutputsOf(request[k]) = {}

\* C9 as stated: every file marked for generation, one without messages
\* too, yields exactly one output named with its path stem plus
\* .pb.validate.go; a file not marked yields none.
C9_OneOutputPerMarkedFile ==
    pluginErr = "nil" =>
        \A k \in 1..Len(request) :
            IF request[k].Generate
            THEN /\ Cardinality(OutputsOf(request[k])) = 1
                 /\ \A i \in OutputsOf(request[k]) :
                       genFiles[i].Name
                           = request[k].GeneratedFilenamePrefix
                                 \o ".pb.validate.go"
            ELSE OutputsOf(request[k]) = {}

\* C9 witness: a run over two marked files, the first without messages
\* and the second with one, that ended with the one output of the second.
C9_Witness ==
    /\ pluginErr = "nil"
    /\ Len(request) = 2
    /\ request[1].Generate /\ request[1].Messages = <<>>
    /\ request[2].Generate /\ request[2].Messages # <<>>
    /\ Len(genFiles) = 1
    /\ genFiles[1].Name = Stem(2) \o ".pb.validate.go"

ItemsOfType(cs, type) == {k \in 1..Len(cs) : cs[k].Type = type}

\* C11: on a repeated field a generated Validate() fails whenever the
\* collection has fewer than min_items or more than max_items elements;
\* where these are the only constraints of the message it returns 'must
\* have at least A items' below A, 'must have at most B items' above B
\* (from A on), and nil for every size from A to B.
C11_ItemBounds ==
    Called =>
        LET cs == MessageConstraints(CalledMessage)
            mins == ItemsOfType(cs, "minItems")
            maxs == ItemsOfType(cs, "maxItems")
        IN  /\ \A k \in mins \cup maxs :
                  (cs[k].Field.IsList
                   /\ Breaks(cs[k], call.Value[cs[k].Index])) =>
                      call.Result # Nil
            /\ (/\ Len(CalledMessage.Fields) = 1
                /\ CalledMessage.Fields[1].IsList
                /\ mins \cup maxs = 1..Len(cs)) =>
                  LET n == Len(call.Value[1])
                      low == \E k \in mins : n < cs[k].N
                      high == \E k \in maxs : n > cs[k].N
                  IN  call.Result =
                        IF low
                        THEN Some("field " \o CalledMessage.Fields[1].GoName
                                  \o " must have at least "
                                  \o ToString(cs[CHOOSE k \in mins : TRUE].N)
                                  \o " items")
                        ELSE IF high
                        THEN Some("field " \o CalledMessage.Fields[1].GoName
                                  \o " must have at most "
                                  \o ToString(cs[CHOOSE k \in maxs : TRUE].N)
                                  \o " items")
                        ELSE Nil

\* C11 witness: min_items 1 and max_items MaxN on a repeated field, a
\* collection of MaxN + 1 elements, and the max_items error returned.
C11_Witness ==
    /\ Called
    /\ Len(CalledMessage.Fields) = 1
    /\ CalledMessage.Fields[1].IsList
    /\ CalledMessage.Fields[1].Rules = RepeatedRule(Some(1), Some(MaxN))
    /\ Len(call.Value[1]) = MaxN + 1
    /\ call.Result = Some("field " \o CalledMessage.Fields[1].GoName
                          \o " must have at most " \o ToString(MaxN)
                          \o " items")

\* C12: the quoted literal that buildValidationChecks hands to the
\* pattern template and keeps in the check unquotes to exactly the
\* pattern of the FieldValidation, also for patterns with quotes,
\* backslashes, newlines and bytes outside ASCII.
C12_PatternRoundTrip ==
    (built # Nil /\ fv[1].Pattern # <<>>) =>
        \E i \in 1..Len(built[1]) :
            /\ built[1][i].Type = "pattern"
            /\ Unquote(built[1][i].Pattern) = fv[1].Pattern
            /\ Unquote(built[1][i].Code.Pattern) = fv[1].Pattern

\* C12 witness: a pattern made of a backslash and a quote went through
\* the check builder and its literal is longer than the pattern plus the
\* two enclosing quotes.
C12_Witness ==
    /\ built # Nil
    /\ fv[1].Pattern = <<"\\", "\"">>
    /\ Len(built[1]) = 1
    /\ Len(built[1][1].Pattern) = 6

\* the four numeric constraints as the annotation of a field states
\* them: nil where absent, a pointer to the value where present
AnnotatedNumbers(field) ==
    LET s == field.Rules[1].String_
        r == field.Rules[1].Repeated
    IN  [MinLen   |-> IF s # Nil THEN s[1].MinLen ELSE Nil,
         MaxLen   |-> IF s # Nil THEN s[1].MaxLen ELSE Nil,
         MinItems |-> IF r # Nil THEN r[1].MinItems ELSE Nil,
         MaxItems |-> IF r # Nil THEN r[1].MaxItems ELSE Nil]

\* the length and size checks of a method body on the field called name,
\* each as its comparison, its number and its error text
NumericChecks(body, name) ==
    {[stmt |-> body[i].stmt, Value |-> body[i].Value, Msg |-> body[i].Msg] :
        i \in {n \in 1..Len(body) : /\ body[n].FieldName = name
                                   /\ body[n].stmt \in {"if len <", "if len >"}}}

\* the length and size checks the annotation of a field asks for
AnnotatedChecks(field) ==
    LET a == AnnotatedNumbers(field)
        one(p, stmt, what, unit) ==
            IF p = Nil THEN {}
            ELSE {[stmt |-> stmt, Value |-> p[1],
                   Msg |-> "field " \o field.GoName \o what
                           \o ToString(p[1]) \o unit]}
    IN  one(a.MinLen, "if len <", " must be at least ", " characters")
        \cup one(a.MaxLen, "if len >", " must be at most ", " characters")
        \cup one(a.MinItems, "if len <", " must have at least ", " items")
        \cup one(a.MaxItems, "if len >", " must have at most ", " items")

\* C13: a min_len, max_len, min_items or max_items present in the
\* annotation, 0 included, is extracted as a pointer to its value and
\* yields its check; an absent one is extracted as nil and yields none.
C13_PresenceDecides ==
    \A i \in 1..Len(genFiles) :
        \A j \in 1..Len(genFiles[i].Content) :
            genFiles[i].Content[j].kind = "method" =>
                LET name == genFiles[i].Content[j].MessageName
                    msg == MessageOf(FileOf(genFiles[i]), name)
                    info == CHOOSE m \in Range(genFiles[i].Info.Messages) :
                                m.GoName = name
                IN  \A f \in Range(msg.Fields) :
                       f.Rules # Nil =>
                          /\ \E v \in Range(info.Fields) :
                                /\ v.FieldName = f.GoName
                                /\ [MinLen |-> v.MinLen, MaxLen |-> v.MaxLen,
                                    MinItems |-> v.MinItems,
                                    MaxItems |-> v.MaxItems]
                                       = AnnotatedNumbers(f)
                          /\ NumericChecks(genFiles[i].Content[j].Body,
                                           f.GoName) = AnnotatedChecks(f)

\* C13 witness: a field annotated with min_len 0 and no max_len got
\* exactly the check 'len < 0'.
C13_Witness ==
    \E i \in 1..Len(genFiles) :
        /\ Len(genFiles[i].Content) >= 2
        /\ genFiles[i].Content[2].kind = "method"
        /\ LET msg == MessageOf(FileOf(genFiles[i]),
                                genFiles[i].Content[2].MessageName)
           IN  /\ msg.Fields[1].Rules = StringRule(Some(0), Nil, Nil, FALSE)
               /\ Len(genFiles[i].Content[2].Body) = 1
               /\ genFiles[i].Content[2].Body[1].stmt = "if len <"
               /\ genFiles[i].Content[2].Body[1].Value = 0

\* whether the annotation of a field sets email = true
EmailField(field) ==
    /\ field.Rules # Nil
    /\ field.Rules[1].String_ # Nil
    /\ field.Rules[1].String_[1].Email

\* the names of the messages that are to get a method, in declaration
\* order
MethodNames(msgs) ==
    LET kept == SelectSeq(AllMessages(msgs), NotMapEntry)
    IN  [k \in 1..Len(kept) |-> kept[k].GoName]

\* C14: a generated file is the header, then the Validate methods of the
\* messages declared in the schema file in declaration order, then the
\* isValidEmail helper, which is there exactly once if a field of any
\* message of the file has email = true and not at all otherwise.
C14_FileShape ==
    \A i \in 1..Len(genFiles) :
        LET g == genFiles[i]
            all == AllMessages(FileOf(g).Messages)
            names == MethodNames(FileOf(g).Messages)
            helper == \E m \in Range(all) : \E f \in Range(m.Fields) :
                          EmailField(f)
        IN  /\ Len(g.Content) = 1 + Len(names) + (IF helper THEN 1 ELSE 0)
            /\ g.Content[1].kind = "header"
            /\ \A k \in 1..Len(names) :
                  /\ g.Content[1 + k].kind = "method"
                  /\ g.Content[1 + k].MessageName = names[k]
            /\ helper => g.Content[Len(g.Content)].kind = "isValidEmail"

\* C14 witness: a file declaring a map entry and then a message with an
\* email field was written as header, one method, helper.
C14_Witness ==
    \E i \in 1..Len(genFiles) :
        /\ Len(FileOf(genFiles[i]).Messages) = 2
        /\ FileOf(genFiles[i]).Messages[1].IsMapEntry
        /\ EmailField(FileOf(genFiles[i]).Messages[2].Fields[1])
        /\ Len(genFiles[i].Content) = 3
        /\ genFiles[i].Content[1].kind = "header"
        /\ genFiles[i].Content[2].kind = "method"
        /\ genFiles[i].Content[2].MessageName
               = FileOf(genFiles[i]).Messages[2].GoName
        /\ genFiles[i].Content[3].kind = "isValidEmail"

ReceiverRule(n) ==
    IF n = <<>> \/ n[1] \in {"p", "P"} THEN "m"
    ELSE IF n[1] \in Lower THEN n[1]
    ELSE CHOOSE l \in Lower : \E i \in 1..26 : UpperSeq[i] = n[1] /\ LowerSeq[i] = l

\* C16: getReceiverName returns the lower-cased first letter of the type
\* name, but "m" for the empty name and for a first letter p; the tested
\* names give c, u, m, m and m; a name asked twice gets the same receiver.
C16_ReceiverName ==
    \A i \in 1..Len(receivers) :
        /\ receivers[i] = ReceiverRule(typeName[1])
        /\ receivers[i] = receivers[1]
        /\ typeName[1] = CreateNoteRequestName => receivers[i] = "c"
        /\ typeName[1] = MUser => receivers[i] = "u"
        /\ typeName[1] = MProduct => receivers[i] = "m"
        /\ typeName[1] = MessageName => receivers[i] = "m"
        /\ typeName[1] = <<>> => receivers[i] = "m"

\* C16 witness: Product was asked for twice and got m both times.
C16_Witness ==
    /\ typeName = Some(MProduct)
    /\ receivers = <<"m", "m">>

\* Validate() was called on the README's CreateNoteRequest with
\* Title "Short", Content "Content" and Email "invalid-email"
ReadmeCalled ==
    /\ Called
    /\ call.Message = CreateNoteRequestName
    /\ call.Value = ReadmeValue

Blank(s) == \A i \in 1..Len(s) : s[i] \in Space

\* the step in which the service returns from a call of op
Returns(ops) == ret = NoRet /\ ret'.Op \in ops

\* C18: Update of a stored note keeps the stored title when the given one
\* is blank, and that is no error; else it stores the trimmed title; it
\* always stores the trimmed content; the returned note has the given ID
\* and is the one now stored.
C18_UpdateMerges ==
    [][(Returns({"Update"}) /\ ret'.ID \in DOMAIN notes) =>
          /\ ret'.Err = ""
          /\ ret'.Note.ID = ret'.ID
          /\ ret'.Note.Title = IF Blank(ret'.Title) THEN notes[ret'.ID].Title
                               ELSE TrimSpace(ret'.Title)
          /\ ret'.Title = <<" ", "b", "\t">> => ret'.Note.Title = <<"b">>
          /\ ret'.Note.Content = TrimSpace(ret'.Content)
          /\ ret'.Content = <<" ", "c", "\n">> => ret'.Note.Content = <<"c">>
          /\ ret'.Content = <<>> => ret'.Note.Content = <<>>
          /\ DOMAIN notes' = DOMAIN notes
          /\ notes'[ret'.ID] = ret'.Note]_vars

\* C18 witness: an update with a blank title and an empty content returned
\* the note with its stored title and an empty content.
C18_Witness ==
    /\ ret.Op = "Update"
    /\ ret.Title = <<" ", " ">>
    /\ ret.Content = <<>>
    /\ ret.Err = ""
    /\ ret.Note.Title = <<"a">>
    /\ ret.Note.Content = <<>>
    /\ notes[ret.ID] = ret.Note

\* C19: Create with an empty or blank title returns 'title cannot be empty'
\* and an empty note, calls no method of the repository and leaves the
\* stored notes as they were.
C19_CreateBlankTitle ==
    [][(Returns({"Create"}) /\ Blank(ret'.Title)) =>
          /\ ret'.Err = "title cannot be empty"
          /\ ret'.Note = EmptyNote
          /\ repoLog' = <<>>
          /\ notes' = notes]_vars

\* C19 witness: Create with a title of two spaces was refused while a note
\* was stored.
C19_Witness ==
    /\ ret.Op = "Create"
    /\ ret.Title = <<" ", " ">>
    /\ ret.Err = "title cannot be empty"
    /\ DOMAIN notes # {}

\* C20: Get, Update and Delete with an empty id return 'id cannot be empty'
\* and an empty note, call no method of the repository and leave the
\* stored notes as they were.
C20_EmptyID ==
    [][(Returns({"Get", "Update", "Delete"}) /\ ret'.ID = "") =>
          /\ ret'.Err = "id cannot be empty"
          /\ ret'.Note = EmptyNote
          /\ repoLog' = <<>>
          /\ notes' = notes]_vars

\* C20 witness: Delete with an empty id was refused while a note was stored.
C20_Witness ==
    /\ ret.Op = "Delete"
    /\ ret.ID = ""
    /\ ret.Err = "id cannot be empty"
    /\ DOMAIN notes # {}

\* C21: Get, Update and Delete with a non-empty id under which nothing is
\* stored return ErrNoteNotFound (Get and Update with an empty note) and
\* leave the stored notes as they were; Update stores nothing under the id.
C21_NotFound ==
    [][(/\ Returns({"Get", "Update", "Delete"})
        /\ ret'.ID # ""
        /\ ret'.ID \notin DOMAIN notes) =>
          /\ ret'.Err = "note not found"
          /\ ret'.Note = EmptyNote
          /\ notes' = notes
          /\ ret'.ID \notin DOMAIN notes']_vars

\* C21 witness: Update of an id that was never handed out was refused
\* while a note was stored.
C21_Witness ==
    /\ ret.Op = "Update"
    /\ ret.ID = "zz"
    /\ ret.Title = <<"a">>
    /\ ret.Err = "note not found"
    /\ DOMAIN notes # {}
    /\ "zz" \notin DOMAIN notes

\* the IDs of notes that were stored and then deleted
DeletedIDs == uuids \ DOMAIN notes

\* the step changes or removes what is stored under id
Touches(id) == id \notin DOMAIN notes' \/ notes'[id] # notes[id]

\* C22: a successful Create returns and stores a note with a new non-empty
\* ID and the trimmed title and content; Get of a stored ID returns the
\* stored note, which only a successful Update or Delete of that ID changes;
\* Get, Update and Delete of a deleted ID return ErrNoteNotFound, and a
\* deleted ID is never stored again.
C22_Lifecycle ==
    [][/\ (Returns({"Create"}) /\ ret'.Err = "") =>
             /\ ret'.Note.ID # ""
             /\ ret'.Note.ID \notin DOMAIN notes
             /\ ret'.Note.Title = TrimSpace(ret'.Title)
             /\ ret'.Note.Content = TrimSpace(ret'.Content)
             /\ ret'.Note.ID \in DOMAIN notes'
             /\ notes'[ret'.Note.ID] = ret'.Note
       /\ (Returns({"Get"}) /\ ret'.ID \in DOMAIN notes) =>
             /\ ret'.Err = ""
             /\ ret'.Note = notes[ret'.ID]
       /\ \A id \in DOMAIN notes :
             Touches(id) =>
                /\ Returns({"Update", "Delete"})
                /\ ret'.ID = id
                /\ ret'.Err = ""
       /\ (Returns({"Delete"}) /\ ret'.Err = "") =>
             /\ ret'.ID \in DOMAIN notes
             /\ ret'.ID \notin DOMAIN notes'
       /\ (Returns({"Get", "Update", "Delete"}) /\ ret'.ID \in DeletedIDs) =>
             ret'.Err = "note not found"
       /\ \A id \in DeletedIDs : id \notin DOMAIN notes']_vars

\* C22 witness: a note was created and deleted, another was created after
\* that, and Get of the deleted ID returned ErrNoteNotFound.
C22_Witness ==
    /\ ret.Op = "Get"
    /\ ret.ID \in DeletedIDs
    /\ ret.Err = "note not found"
    /\ DOMAIN notes # {}

\* the messages that name a failed validation, whatever their case
ValidationMessages ==
    {MsgTitleEmpty, MsgIDEmpty, MsgTitleEmptyCaps, MsgInvalidCaps,
     MsgContentEmpty}

\* the status code and the internal code handleError owes an error
ExpectedCodes(err) ==
    IF err.IsNotFound THEN <<"NotFound", "NOTE_NOT_FOUND">>
    ELSE IF err.Msg \in ValidationMessages
    THEN <<"InvalidArgument", "VALIDATION_ERROR">>
    ELSE <<"Internal", "INTERNAL_ERROR">>

\* C23: handleError returns nil for nil; NotFound with NOTE_NOT_FOUND for
\* an error that is ErrNoteNotFound, whatever its message; InvalidArgument
\* with VALIDATION_ERROR for another error whose message has 'cannot be
\* empty' or 'invalid' in any case; Internal with INTERNAL_ERROR for the
\* rest; and a status it returns has exactly one detail.
C23_HandleError ==
    reply.Method = "handleError" =>
        /\ reply.SvcErr = Nil <=> reply.Status = Nil
        /\ reply.SvcErr # Nil =>
              /\ Len(reply.Status[1].Details) = 1
              /\ reply.Status[1].Code = ExpectedCodes(reply.SvcErr[1])[1]
              /\ reply.Status[1].Details[1].InternalErrorCode
                    = ExpectedCodes(reply.SvcErr[1])[2]

\* C23 witness: handleError answered NotFound to an error that wraps
\* ErrNoteNotFound under a message with 'invalid' in it.
C23_Witness ==
    /\ reply.Method = "handleError"
    /\ reply.SvcErr = Error(TRUE, MsgInvalidWrapped)
    /\ reply.Status # Nil
    /\ reply.Status[1].Code = "NotFound"

\* C24: GetNote answers an error that is ErrNoteNotFound with status
\* NotFound, message 'note not found' and one detail that has the requested
\* id as NoteId and in its Reason; it answers a note the service returned
\* without error with that note's id, title and content and no status.
C24_GetNote ==
    reply.Method = "GetNote" =>
        /\ (reply.SvcErr # Nil /\ reply.SvcErr[1].IsNotFound) =>
              /\ reply.Resp = Nil
              /\ reply.Status # Nil
              /\ reply.Status[1].Code = "NotFound"
              /\ reply.Status[1].Message = MsgNoteNotFound
              /\ Len(reply.Status[1].Details) = 1
              /\ reply.Status[1].Details[1].NoteId = reply.ID
              /\ reply.Status[1].Details[1].Reason.ID = reply.ID
              /\ reply.Status[1].Details[1].Reason.Text
                    = "Note with ID %s was searched but not found in DB"
        /\ reply.SvcErr = Nil =>
              /\ reply.Status = Nil
              /\ reply.Resp # Nil
              /\ reply.Resp[1].Note # Nil
              /\ reply.Resp[1].Note[1].Id = reply.SvcNote.ID
              /\ reply.Resp[1].Note[1].Title = reply.SvcNote.Title
              /\ reply.Resp[1].Note[1].Content = reply.SvcNote.Content

\* C24 witness: GetNote of zz was answered NotFound with zz in the detail.
C24_Witness ==
    /\ reply.Method = "GetNote"
    /\ reply.ID = "zz"
    /\ reply.SvcErr = Error(TRUE, MsgNoteNotFound)
    /\ reply.Status # Nil
    /\ reply.Status[1].Details[1].NoteId = "zz"

\* the call carries the valid bearer token: the first value of the
\* authorization metadata is 'Bearer my-secret-token'
Authorized(md) ==
    /\ md # Nil
    /\ Len(md[1]) > 0
    /\ md[1][1] = <<"B","e","a","r","e","r"," ","m","y","-","s","e","c","r","e","t","-","t","o","k","e","n">>

\* C25: a unary RPC enters Logger, Validate, Auth and the handler in that
\* order and stops at the first that rejects it: at Validate with
\* InvalidArgument for an invalid request, at Auth with Unauthenticated for
\* a valid request without the token; the handler runs for the valid
\* requests with the token only; Logger logs every request twice.
C25_UnaryChain ==
    rpc.Kind = "unary" =>
        /\ rpc.Ran[1] = "Logger"
        /\ Len(rpc.Log) = 2
        /\ rpc.Log[1] = "Incoming request: " \o rpc.Method
        /\ ~rpc.Valid =>
              /\ rpc.Ran = <<"Logger", "Validate">>
              /\ rpc.Status # Nil
              /\ rpc.Status[1].Code = "InvalidArgument"
        /\ (rpc.Valid /\ ~Authorized(rpc.MD)) =>
              /\ rpc.Ran = <<"Logger", "Validate", "Auth">>
              /\ rpc.Status # Nil
              /\ rpc.Status[1].Code = "Unauthenticated"
        /\ (rpc.Valid /\ Authorized(rpc.MD)) =>
              /\ rpc.Ran = <<"Logger", "Validate", "Auth", "Handler">>
              /\ rpc.Status = rpc.Out

\* C25 witness: an invalid request without the token was answered
\* InvalidArgument and logged.
C25_Witness ==
    /\ rpc.Kind = "unary"
    /\ ~rpc.Valid
    /\ rpc.MD = Some(<<>>)
    /\ rpc.Status = StatusErrorf("InvalidArgument", "validation failed: %v")
    /\ Len(rpc.Log) = 2

\* C26: the handler of an RPC, unary or streaming, runs only for a call
\* that carries the valid bearer token.
C26_HandlerNeedsToken ==
    (\E i \in 1..Len(rpc.Ran) : rpc.Ran[i] = "Handler") => Authorized(rpc.MD)

\* C26 witness: the handler of a unary RPC ran for a call with the token.
C26_Witness ==
    /\ rpc.Kind = "unary"
    /\ Authorized(rpc.MD)
    /\ rpc.Ran = <<"Logger", "Validate", "Auth", "Handler">>

\* C26 for the unary RPCs alone, which Auth guards.
C26_UnaryHandlerNeedsToken ==
    (rpc.Kind = "unary" /\ \E i \in 1..Len(rpc.Ran) : rpc.Ran[i] = "Handler")
        => Authorized(rpc.MD)

-----------------------------------------------------------------------------
(* C28: Publish enqueues below ten pending notes and drops otherwise *)

\* the turn of Publish's loop taken in this step is the one for channel ch
Handles(p, ch) ==
    /\ pubs[p] # Nil
    /\ pubs'[p] # Nil
    /\ ch \in pubs[p][1].Todo
    /\ ch \notin pubs'[p][1].Todo

\* the notes of a queue, oldest publication first
Increasing(q) == \A i, j \in 1..Len(q) : i < j => q[i] < q[j]

\* the notes pending in a channel
Pending(ch) == {chans[ch].Buf[i] : i \in 1..Len(chans[ch].Buf)}

\* every turn of the loop can be taken at once, whatever the channel holds
C28_NeverBlocks ==
    \A p \in Publishers : pubs[p] # Nil =>
        \A ch \in pubs[p][1].Todo : ENABLED PublishSend(p, ch)

\* the loop ranges over every channel registered when Publish took the lock
C28_AllSubscribers ==
    \A p \in Publishers :
        (pubs[p] = Nil /\ pubs'[p] # Nil) => pubs'[p][1].Todo = subscribers

\* a turn enqueues at the tail below ten pending notes, drops otherwise,
\* and leaves every other channel as it was
C28_EnqueueOrDrop ==
    \A p \in Publishers : \A ch \in Channels :
        Handles(p, ch) =>
            /\ ch \in subscribers
            /\ chans'[ch].Buf =
                  IF Len(chans[ch].Buf) < 10
                  THEN chans[ch].Buf \o <<pubs[p][1].Note>>
                  ELSE chans[ch].Buf
            /\ Len(chans'[ch].Buf) <= 10
            /\ \A c \in DOMAIN chans \ {ch} : chans'[c] = chans[c]

\* a subscriber takes the oldest pending note, older than all that remain
C28_ReceiveOldest ==
    \A ch \in DOMAIN chans :
        (ch \in DOMAIN chans' /\ Len(chans'[ch].Buf) < Len(chans[ch].Buf)) =>
            /\ evOp'.Note = chans[ch].Buf[1]
            /\ \A n \in Pending(ch)' : evOp'.Note < n

\* C28: Publish never blocks; for each registered subscriber it enqueues
\* the note if the channel holds fewer than 10 pending notes and drops it
\* otherwise; a full subscriber changes nothing for the others; and each
\* subscriber receives its notes in publish order.
C28_Publish ==
    /\ [](C28_NeverBlocks /\ \A ch \in DOMAIN chans : Increasing(chans[ch].Buf))
    /\ [][C28_AllSubscribers /\ C28_EnqueueOrDrop /\ C28_ReceiveOldest]_vars

\* a note was dropped for a full subscriber and enqueued for the other one
C28_Witness ==
    \E a, b \in subscribers :
        /\ a # b
        /\ pubs["p1"] # Nil
        /\ pubs["p1"][1].Todo = {}
        /\ Len(chans[a].Buf) = 10
        /\ published \notin Pending(a)
        /\ published \in Pending(b)
        /\ evOp = Op("Send", b, published, TRUE)

-----------------------------------------------------------------------------
(* C29: no send on a closed channel, no second close *)

\* a closed channel is registered nowhere: not in the map, and not among
\* the channels a running Publish still has to serve
C29_ClosedIsGone ==
    \A ch \in DOMAIN chans :
        chans[ch].Closed =>
            /\ ch \notin subscribers
            /\ \A p \in Publishers : pubs[p] # Nil => ch \notin pubs[p][1].Todo

\* Unsubscribe of a registered channel closes and removes it; Unsubscribe of
\* any other channel changes nothing
C29_Unsubscribe ==
    \A ch \in DOMAIN chans :
        (evOp' # evOp /\ evOp'.Op = "Unsubscribe" /\ evOp'.Ch = ch) =>
            IF ch \in subscribers
            THEN /\ ~chans[ch].Closed
                 /\ chans'[ch].Closed
                 /\ subscribers' = subscribers \ {ch}
            ELSE UNCHANGED <<chans, subscribers, panics>>

\* nothing is delivered to a channel once its Unsubscribe has returned
C29_NoLateDelivery ==
    \A ch \in DOMAIN chans :
        chans[ch].Closed =>
            /\ chans'[ch].Closed
            /\ Len(chans'[ch].Buf) <= Len(chans[ch].Buf)

\* C29: under every interleaving of Subscribe, Unsubscribe and Publish no
\* send on a closed channel and no second close happens; Unsubscribe closes
\* and removes a channel only while it is registered, a repeated Unsubscribe
\* does nothing, and no Publish delivers to a channel after its Unsubscribe.
C29_NoPanic ==
    /\ [](panics = {} /\ C29_ClosedIsGone)
    /\ [][C29_Unsubscribe /\ C29_NoLateDelivery]_vars

\* Unsubscribe was repeated for a closed channel that still holds a note,
\* after two calls of Publish had been under way at once
C29_Witness ==
    \E ch \in DOMAIN chans :
        /\ evOp = Op("Unsubscribe", ch, 0, FALSE)
        /\ chans[ch].Closed
        /\ chans[ch].Buf # <<>>
        /\ \E i \in 1..Len(chans[ch].Buf) - 1 :
               chans[ch].Buf[i] > chans[ch].Buf[i + 1]

-----------------------------------------------------------------------------
(* C30: no event service, no stream; otherwise the welcome comes first *)

\* C30: without an event service SubscribeToEvents returns Internal 'event
\* service not available', sends nothing and subscribes no channel;
\* otherwise the first message of the stream is the HealthCheck 'Connected
\* to events stream', before any NoteCreated and any periodic health check.
C30_WelcomeFirst ==
    IF hasEvents
    THEN /\ stream.Sent # <<>> =>
               /\ stream.Sent[1].Kind = "HealthCheck"
               /\ stream.Sent[1].Message = "Connected to events stream"
         /\ \A i \in 2..Len(stream.Sent) :
               stream.Sent[i].Message # "Connected to events stream"
         /\ (stream.PC = "done" /\ stream.Err # Nil) =>
               stream.Err[1].Message # "event service not available"
    ELSE /\ stream.Sent = <<>>
         /\ subscribers = {}
         /\ chans = <<>>
         /\ stream.PC = "done" =>
               /\ stream.Err # Nil
               /\ stream.Err[1].Code = "Internal"
               /\ stream.Err[1].Message = "event service not available"

\* a stream that carried the welcome, then an event and a periodic check
C30_Witness ==
    /\ hasEvents
    /\ Len(stream.Sent) = 3
    /\ \E i, j \in 2..3 :
          /\ stream.Sent[i].Kind = "NoteCreated"
          /\ stream.Sent[j].Message = "Health check"

\* a call turned down for want of an event service
C30_WitnessRejected ==
    /\ ~hasEvents
    /\ stream.PC = "done"

-----------------------------------------------------------------------------
(* C27: notes created in the wired server reach a subscribed client *)

\* the stream has carried the NoteCreated event of the note
EventSent(id) ==
    \E i \in 1..Len(stream.Sent) :
        stream.Sent[i].Kind = "NoteCreated" /\ stream.Sent[i].NoteId = id

\* a SubscribeToEvents call ends only when the client disconnects (nil) or
\* a Send fails: until then the client is subscribed
C27_StaysSubscribed == stream.PC = "done" => stream.Err \in {Nil, SendErr}

-----------------------------------------------------------------------------
(* C34: concurrent Update and Delete of one note against sequential orders *)

\* what caller c's call does when it runs alone on the store ns
Alone(ns, c) ==
    IF calls[c].Op = "Update"
    THEN Update(ns, calls[c].ID, calls[c].Title, calls[c].Content, now)
    ELSE Delete(ns, calls[c].ID)

\* the store and the results are those of first's call followed by second's
AsIfInOrder(first, second) ==
    /\ calls[first].Note = Alone(SharedNotes, first).Note
    /\ calls[first].Err = Alone(SharedNotes, first).Err
    /\ calls[second].Note = Alone(Alone(SharedNotes, first).Notes, second).Note
    /\ calls[second].Err = Alone(Alone(SharedNotes, first).Notes, second).Err
    /\ notes = Alone(Alone(SharedNotes, first).Notes, second).Notes

\* both calls have returned
BothDone == \A c \in Callers : calls[c].PC = "done"

\* C34: once concurrent Update and Delete calls on one note have returned,
\* the stored note and the results are those of some sequential order of
\* the calls.
C34_UpdateAtomic ==
    BothDone => AsIfInOrder("c1", "c2") \/ AsIfInOrder("c2", "c1")

\* a successful Delete is final: no Update that had read the note before
\* stores it again
C34_DeletedStaysDeleted ==
    (\E c \in Callers :
        calls[c].PC = "done" /\ calls[c].Op = "Delete" /\ calls[c].Err = "")
    => SharedID \notin DOMAIN notes

\* two updates that both read the note before either wrote: the title the
\* first one set is gone
C34_Witness ==
    /\ BothDone
    /\ \A c \in Callers : calls[c].Op = "Update" /\ calls[c].Err = ""
    /\ calls["c1"].Note.Title = <<"b">>
    /\ calls["c2"].Read.Title = <<"a">>
    /\ calls["c2"].Title = <<>>
    /\ notes[SharedID].Title = <<"a">>

-----------------------------------------------------------------------------
(* C31: one Send at a time on a stream *)

\* C31: at most one goroutine at a time executes stream.Send on the stream
\* of a Chat call.
C31_OneSendAtATime == Cardinality(DOMAIN chat.Sending) <= 1

\* the receiving goroutine sends a reply while the notifying one sends a
\* notification
C31_Witness ==
    /\ chat.R = "sending"
    /\ chat.N = "sending"
    /\ DOMAIN chat.Sending = {"R", "N"}
    /\ chat.Overlap = {"R", "N"}

-----------------------------------------------------------------------------
(* C32: one reply per received message, business errors keep the stream *)

\* a Send of the receiving goroutine has failed
ReplyFailed ==
    \/ chat.R = "blocked"
    \/ \E i \in 1..Len(chat.ErrChan) : chat.ErrChan[i] = "error sending reply"
    \/ chat.Result = <<"error sending reply">>

\* the received messages whose handling is over
Answered ==
    IF chat.R \in {"got", "sending"} \/ ReplyFailed
    THEN SubSeq(chat.Recvd, 1, Len(chat.Recvd) - 1)
    ELSE chat.Recvd

\* the messages on the wire that carry the correlation_id cid
WithCid(cid) == {j \in 1..Len(chat.Out) : chat.Out[j].Cid = cid}

\* the reply the claim states for a text or content-less message
IsStatedReply(r, msg) ==
    IF msg.Kind = "none"
    THEN r.Kind = "error" /\ r.Code = "INVALID_MESSAGE"
    ELSE IF \A i \in 1..Len(msg.Text) : msg.Text[i] \in {" ", "\t"}
    THEN r.Kind = "error" /\ r.Code = "VALIDATION_ERROR"
    ELSE /\ r.Kind = "text"
         /\ r.Text = <<"A","c","k","n","o","w","l","e","d","g","e","d",":",
                       " ">> \o msg.Text

\* every handled text or content-less message has exactly one message on
\* the wire with its correlation_id, and that one is the stated reply
C32_OneReplyEach ==
    \A i \in 1..Len(Answered) :
        Answered[i].Kind # "error" =>
            /\ Cardinality(WithCid(Answered[i].Cid)) = 1
            /\ \A j \in WithCid(Answered[i].Cid) :
                  IsStatedReply(chat.Out[j], Answered[i])

\* a reply that was sent leaves the goroutine in its loop and Chat waiting
C32_StreamGoesOn ==
    (chat.R = "sending" /\ Len(chat'.Out) > Len(chat.Out)) =>
        /\ chat'.R \in {"recv", "check"}
        /\ chat'.ErrChan = chat.ErrChan
        /\ chat'.PC = chat.PC

C32_RepliesUnlessOverlap ==
    (\A j \in 1..Len(chat.Out) : chat.Out[j] # Garbled) => C32_OneReplyEach

-----------------------------------------------------------------------------
(* C33: Chat after the client's half-close, and with errors *)

\* a goroutine has reported an error
Reported == chat.ErrChan # <<>> \/ chat.Result # Nil

\* no goroutine is stuck sending to errChan, and Chat returns nil only when
\* no error was reported
C33_NoneBlocked ==
    /\ chat.R # "blocked"
    /\ chat.N # "blocked"
    /\ (chat.PC = "returned" /\ chat.Result = Nil) => chat.ErrChan = <<>>

\* Chat returns the error reported first
C33_FirstError ==
    (chat.PC = "wait" /\ chat'.PC = "returned" /\ chat.ErrChan # <<>>) =>
        chat'.Result = <<chat.ErrChan[1]>>

\* the part of C33 about errors
C33_Errors == []C33_NoneBlocked /\ [][C33_FirstError]_vars

-----------------------------------------------------------------------------
(* C35: Shutdown cancels first, ends, and returns what its select saw *)

\* GracefulStop starts only after both contexts are cancelled
C35_CancelsFirst ==
    (srv.Go # "off" \/ srv.Grpc = "draining") =>
        srv.Ctx = "done" /\ srv.GwCtx = "done"

\* nil exactly when GracefulStop was through before the deadline, the
\* deadline error otherwise and then only after Stop
C35_Result ==
    srv.PC = "returned" =>
        IF srv.Within
        THEN srv.Result = "nil" /\ ~srv.Forced
        ELSE /\ srv.Result = "context deadline exceeded"
             /\ srv.Forced
             /\ srv.Grpc = "stopped"

C35_WitnessGraceful ==
    /\ srv.PC = "returned"
    /\ srv.Within
    /\ srv.Result = "nil"
    /\ srv.Left > 0

-----------------------------------------------------------------------------
(* C36: the gateway after GatewayCancel *)

\* once the gateway context is cancelled the HTTP server accepts nothing
C36_NoMoreRequests == srv.GwCtx = "done" => srv'.Served = srv.Served

\* C36: after GatewayCancel the gateway's Setup call eventually returns and
\* the HTTP server accepts no further request.
C36_GatewayStops ==
    /\ [][C36_NoMoreRequests]_vars
    /\ (srv.GwCtx = "done" /\ srv.Setup = "running")
          ~> (srv.Setup = "returned")

\* Shutdown has returned, Setup is still in ListenAndServe and a request
\* came in after the cancellation
C36_Witness ==
    /\ srv.PC = "returned"
    /\ srv.GwCtx = "done"
    /\ srv.Setup = "running"
    /\ srv.Http = "listening"
    /\ srv.Served = MaxHttp

====
